---- MODULE Spec2Model ----
(***************************************************************************)
(* A model of the ankibot enrichment pipeline (process.py, core.py) and of *)
(* the Telegram Mini-App authentication layer (tg_tools.py).               *)
(*                                                                         *)
(* Strings are sequences of one-character strings, so that split, strip,   *)
(* join and startswith are computed the way the Python code computes them. *)
(***************************************************************************)
EXTENDS Integers, Sequences, FiniteSets, TLC

\* ------------------------------------------------------------------ bounds
MaxEvents   == 2   \* events delivered to process.lambda_handler
MaxRecords  == 2   \* records of one event
MaxLines    == 3   \* raw lines of one message text
MaxRespLines == 2  \* raw lines of one LLM response
MaxFaults   == 1   \* failures of external calls injected in one behaviour

\* ------------------------------------------------------------- characters
NL    == "\n"
SP    == " "
PIPE  == "|"

Words == {<<"a">>, <<"b">>}

\* ------------------------------------------------------ string operations
RECURSIVE SplitAcc(_, _, _)
SplitAcc(s, sep, cur) ==
    IF s = <<>> THEN <<cur>>
    ELSE IF Head(s) = sep THEN <<cur>> \o SplitAcc(Tail(s), sep, <<>>)
    ELSE SplitAcc(Tail(s), sep, Append(cur, Head(s)))

\* str.split(sep) for a one-character separator
Split(s, sep) == SplitAcc(s, sep, <<>>)

RECURSIVE LStrip(_)
LStrip(s) == IF s # <<>> /\ Head(s) \in {SP, NL} THEN LStrip(Tail(s)) ELSE s

RECURSIVE RStrip(_)
RStrip(s) ==
    IF s # <<>> /\ s[Len(s)] \in {SP, NL} THEN RStrip(SubSeq(s, 1, Len(s) - 1)) ELSE s

\* str.strip()
Strip(s) == RStrip(LStrip(s))

RECURSIVE Join(_, _)
\* sep.join(parts)
Join(parts, sep) ==
    IF parts = <<>> THEN <<>>
    ELSE IF Len(parts) = 1 THEN parts[1]
    ELSE parts[1] \o <<sep>> \o Join(Tail(parts), sep)

RECURSIVE SelectNonBlank(_)
SelectNonBlank(parts) ==
    IF parts = <<>> THEN <<>>
    ELSE IF Strip(Head(parts)) # <<>>
         THEN <<Strip(Head(parts))>> \o SelectNonBlank(Tail(parts))
         ELSE SelectNonBlank(Tail(parts))

\* [line.strip() for line in text.split('\n') if line.strip()]
CleanLines(text) == SelectNonBlank(Split(text, NL))

Contains(s, c) == \E i \in 1..Len(s) : s[i] = c

\* All sequences over S of length at most n
RECURSIVE SeqsUpTo(_, _)
SeqsUpTo(S, n) ==
    IF n = 0 THEN {<<>>}
    ELSE LET shorter == SeqsUpTo(S, n - 1)
         IN  shorter \cup {Append(q, x) : q \in {r \in shorter : Len(r) = n - 1}, x \in S}

\* ------------------------------------------------------ Content Generator
ParseError == [ok |-> FALSE]

RECURSIVE ParseExamples(_)
\* the loop over lines[1:]; Raise marks a line whose split does not unpack in two
ParseExamples(lines) ==
    IF lines = <<>> THEN [ok |-> TRUE, pairs |-> <<>>]
    ELSE LET line == Head(lines)
             rest == ParseExamples(Tail(lines))
         IN  IF ~Contains(line, PIPE) THEN rest
             ELSE IF Len(Split(line, PIPE)) # 2 THEN [ok |-> FALSE, pairs |-> <<>>]
             ELSE IF ~rest.ok THEN rest
             ELSE [ok |-> TRUE,
                   pairs |-> <<[de |-> Strip(Split(line, PIPE)[1]),
                                ru |-> Strip(Split(line, PIPE)[2])]>> \o rest.pairs]

parse_claude_response(response) ==
    LET lines == CleanLines(response)
    IN  IF lines = <<>> THEN ParseError
        ELSE IF Len(Split(lines[1], PIPE)) # 2 THEN ParseError
        ELSE LET ex == ParseExamples(Tail(lines))
             IN  IF ~ex.ok THEN ParseError
                 ELSE [ok |-> TRUE,
                       definition  |-> Strip(Split(lines[1], PIPE)[1]),
                       translation |-> Strip(Split(lines[1], PIPE)[2]),
                       example_pairs |-> ex.pairs]


\* ------------------------------------------------------------- data model
Levels == {"A1", "A2", "B1", "B2", "C1", "C2"}
DEFAULT_LEVEL == "A1"
UserIds == {"u1"}

\* Python's None, as a string value that no filename equals
None == <<"None">>

\* hashlib.md5(text.encode('utf-8')).hexdigest() + '.mp3'; the digest is
\* modelled as a collision-free tag of the text
FileName(text) == <<"md5:">> \o text \o <<".mp3">>

\* s3_key = f"audio/{filename}"
S3Key(filename) == <<"audio/">> \o filename

\* Polly's task ids and the object a completed task writes under 'audio/'
TaskId(j) == "t" \o ToString(j)
PollyKey(j) == <<"audio/", ".", TaskId(j), ".mp3">>

\* raw lines a message text is made of, and the message texts
RawLines == {<<>>, <<"a">>, <<SP, "a", SP>>, <<"b">>}
MessageTexts == {Join(ls, NL) : ls \in SeqsUpTo(RawLines, MaxLines)}

\* raw lines an LLM response is made of, and the responses
RespLines == { <<"a", SP, PIPE, SP, "t">>, <<"x">>, <<"a", PIPE, "t", PIPE, "t">>, <<>> }
Responses == {Join(ls, NL) : ls \in SeqsUpTo(RespLines, MaxRespLines)}

\* the invocations of process.lambda_handler that can be alive at once
Workers == {1, 2}
\* the invocation that takes the events when they come one after the other
Sequential == {1}

VARIABLES
    inv,      \* per invocation of process.lambda_handler: its local state
    store,    \* table language_entries: the set of stored items
    users,    \* table users: the set of stored items
    blobs,    \* keys of the objects in the audio bucket
    nEvents,  \* events delivered so far
    faults,   \* failures injected so far
    TELEGRAM_TOKEN, \* tg_tools.TELEGRAM_TOKEN; "" when the variable is not set
    event,    \* the API event session_middleware is handling
    tamper,   \* the single-character change made to the request's initData
    mw,       \* session_middleware: its position and what it did
    api,      \* api.lambda_handler: the request in hand and its response
    call      \* one call of a function taken alone: its arguments and its result

pipeVars == <<inv, store, users, blobs, nEvents, faults>>
authVars == <<TELEGRAM_TOKEN, event, tamper, mw>>
apiVars == <<api>>
callVars == <<call>>
vars == <<inv, store, users, blobs, nEvents, faults, TELEGRAM_TOKEN, event, tamper, mw, api, call>>

NoEntry == [id |-> 0]

\* no call of get_examples_from_claude made yet for the record in hand
NoAsk == [query |-> <<>>, level |-> "-", context |-> <<>>]

Idle == [pc |-> "idle", nrec |-> 0, rec |-> 0, lines |-> <<>>, ln |-> 0,
         level |-> "B1", context |-> <<>>, content |-> ParseError,
         tasks |-> <<>>, entry |-> NoEntry, outcomes |-> <<>>, status |-> 0, storeFailed |-> FALSE,
         user_id |-> "-", asked |-> NoAsk]

\* the pipeline before its first event
PipeInit ==
    /\ inv = [i \in Workers |-> Idle]
    /\ store = {}
    /\ users = {}
    /\ blobs = {}
    /\ nEvents = 0
    /\ faults = 0

NoEvent == [headersNull |-> TRUE, headers |-> <<>>, hasRequestContext |-> FALSE,
            hasAuthorizer |-> FALSE, authorizer |-> <<>>]
NotValidated == [is_valid |-> FALSE, user_data |-> None, raised |-> FALSE]
NoTamper == [done |-> FALSE, orig |-> <<>>, res |-> NotValidated]
MwIdle == [pc |-> "idle", before |-> NoEvent, nValidate |-> 0, vres |-> NotValidated,
           nHandler |-> 0, response |-> [is_authenticated |-> FALSE, user_id |-> None]]

NoCall == [pc |-> "idle", op |-> "-"]

ApiIdle == [pc |-> "idle", route |-> "-", item_id |-> 0, status |-> 0, kind |-> "-",
            reads |-> 0, writes |-> 0, is_authenticated |-> FALSE, user_id |-> None]

\* the API function with no request in hand
AuthIdle ==
    /\ event = NoEvent
    /\ tamper = NoTamper
    /\ mw = MwIdle
    /\ api = ApiIdle
    /\ call = NoCall

Init ==
    /\ PipeInit
    /\ TELEGRAM_TOKEN = "T1"
    /\ AuthIdle

CanFail == faults < MaxFaults

\* --------------------------------------------------------------- core.py
\* a lookup that never finds the entry
GetByQueryNever(query) == {}

\* LanguageEntry.get_by_query: the items of the table with that query
get_by_query(query) == {e \in store : e.query = query}

\* User(user_id=str(user_id)) with the dataclass defaults
NewUser(uid) == [user_id |-> uid, level |-> DEFAULT_LEVEL, context |-> <<>>, admin |-> FALSE]

\* table.put_item(Item=user.to_dict()): replaces the item with that key
PutUser(table, u) == {x \in table : x.user_id # u.user_id} \cup {u}

\* a get_user that does not read the table: the user it returns has the
\* dataclass defaults
GetUserDefaults(table, uid) ==
    [user |-> NewUser(uid),
     table |-> IF \E u \in table : u.user_id = uid THEN table ELSE PutUser(table, NewUser(uid))]

\* a get_user that always writes the default record
GetUserAlwaysCreates(table, uid) ==
    [user |-> NewUser(uid), table |-> PutUser(table, NewUser(uid))]

\* User.from_dict: a stored level that is no LanguageLevel becomes the default
UserFromDict(data) ==
    [data EXCEPT !.level = IF data.level \in Levels THEN data.level ELSE DEFAULT_LEVEL]

\* User.get_user on a table: the user returned and the table afterwards
get_user(table, uid) ==
    IF \E u \in table : u.user_id = uid
    THEN [user |-> UserFromDict(CHOOSE u \in table : u.user_id = uid), table |-> table]
    ELSE [user |-> NewUser(uid), table |-> PutUser(table, NewUser(uid))]

\* LanguageEntry.save: table.put_item(Item=self.to_dict()), keyed by id
PutEntry(table, e) == {x \in table : x.id # e.id} \cup {e}


\* ------------------------------------------------------------- process.py
Min(a, b) == IF a < b THEN a ELSE b

\* return {'statusCode': code, ...}
Return(h, code) ==
    [Idle EXCEPT !.status = code, !.nrec = h.nrec, !.rec = h.rec, !.storeFailed = h.storeFailed]

\* the end of one iteration of "for record in event['Records']": the locals
\* of the iteration are dropped
NextRecord(h) ==
    IF h.rec < h.nrec
    THEN [Idle EXCEPT !.pc = "record", !.nrec = h.nrec, !.rec = h.rec,
                      !.storeFailed = h.storeFailed]
    ELSE Return(h, 200)

\* the end of one iteration of "for line in lines": both "continue" statements
\* and the normal end of the loop body lead here
NextLine(h, outcome) ==
    LET h1 == [h EXCEPT !.outcomes = Append(@, outcome), !.content = ParseError,
                        !.tasks = <<>>, !.entry = NoEntry]
    IN  IF h.ln < Len(h.lines) THEN [h1 EXCEPT !.ln = @ + 1, !.pc = "line"]
        ELSE [h1 EXCEPT !.pc = "endlines"]

\* "break" in place of "continue": a failed line ends the loop over the lines
LineFailedBreak(h, kind) ==
    [h EXCEPT !.outcomes = Append(@, kind), !.content = ParseError, !.tasks = <<>>,
              !.entry = NoEntry, !.pc = "endlines"]

\* a failed line that is left to the outer "except Exception"
LineFailedAborts(h, kind) == Return(h, 500)

\* the handler of the per-line "except Exception": log and continue
LineFailed(h, kind) == NextLine(h, kind)

\* the outer "except Exception": the event is abandoned with statusCode 500
Abort(h) == Return(h, 500)

\* An event arrives. Events are handled one after the other.
Receive(i) ==
    /\ \A j \in Workers : inv[j].pc = "idle"
    /\ nEvents < MaxEvents
    /\ nEvents' = nEvents + 1
    /\ \E n \in 0..MaxRecords :
         inv' = [inv EXCEPT ![i] =
                   IF n = 0
                   THEN Abort([Idle EXCEPT !.nrec = 0])   \* 'message' is unbound at line 217
                   ELSE [Idle EXCEPT !.pc = "record", !.nrec = n]]
    /\ UNCHANGED <<store, users, blobs, faults>>
    /\ UNCHANGED authVars
    /\ UNCHANGED apiVars
    /\ UNCHANGED callVars

\* json.loads(record['body']) raises, or the message has no 'text'
RecordMalformed(i) ==
    /\ inv[i].pc = "record"
    /\ \E uid \in UserIds \cup {"-"}, lookedUp \in BOOLEAN :
         \* with a user_id in the message the user is looked up (and created)
         \* before message['text'] raises
         /\ lookedUp => uid \in UserIds
         /\ users' = IF lookedUp THEN get_user(users, uid).table ELSE users
    /\ inv' = [inv EXCEPT ![i] = Abort([@ EXCEPT !.rec = @ + 1, !.lines = <<>>, !.ln = 0,
                                                  !.outcomes = <<>>])]
    /\ UNCHANGED <<store, blobs, nEvents, faults>>
    /\ UNCHANGED authVars
    /\ UNCHANGED apiVars
    /\ UNCHANGED callVars

\* User.get_user raises: it is called outside the per-line try
RecordUserLookupFails(i) ==
    /\ inv[i].pc = "record"
    /\ CanFail
    /\ faults' = faults + 1
    /\ inv' = [inv EXCEPT ![i] = Abort([@ EXCEPT !.rec = @ + 1, !.lines = <<>>, !.ln = 0,
                                                  !.outcomes = <<>>, !.storeFailed = TRUE])]
    /\ UNCHANGED <<store, users, blobs, nEvents>>
    /\ UNCHANGED authVars
    /\ UNCHANGED apiVars
    /\ UNCHANGED callVars

\* lines 180-192: the message is read, the user's level and context are
\* looked up, the text is split into lines
RecordBegin(i) ==
    /\ inv[i].pc = "record"
    /\ \E uid \in UserIds \cup {"-"}, text \in MessageTexts :
         LET got == get_user(users, uid)
             h0  == [inv[i] EXCEPT !.rec = @ + 1,
                                   !.lines = CleanLines(text),
                                   !.ln = 1,
                                   !.outcomes = <<>>,
                                   !.user_id = uid,
                                   !.level = IF uid = "-" THEN "B1" ELSE got.user.level,
                                   !.context = IF uid = "-" THEN <<>> ELSE got.user.context]
         IN  /\ users' = IF uid = "-" THEN users ELSE got.table
             /\ inv' = [inv EXCEPT ![i] =
                          IF h0.lines = <<>> THEN NextRecord([h0 EXCEPT !.ln = 0])
                          ELSE [h0 EXCEPT !.pc = "line"]]
    /\ UNCHANGED <<store, blobs, nEvents, faults>>
    /\ UNCHANGED authVars
    /\ UNCHANGED apiVars
    /\ UNCHANGED callVars

Line(h) == h.lines[h.ln]

\* "for line in lines" is exhausted: on to the next record, or to line 214
LinesDone(i) ==
    /\ inv[i].pc = "endlines"
    /\ inv' = [inv EXCEPT ![i] = NextRecord(@)]
    /\ UNCHANGED <<store, users, blobs, nEvents, faults>>
    /\ UNCHANGED authVars
    /\ UNCHANGED apiVars
    /\ UNCHANGED callVars

\* the lookup without lines 200-202: an existing entry does not end the line
LookupWithoutSkip(i) ==
    /\ inv[i].pc = "line"
    /\ \/ /\ inv' = [inv EXCEPT ![i].pc = "generate"]
          /\ UNCHANGED faults
       \/ /\ CanFail
          /\ faults' = faults + 1
          /\ inv' = [inv EXCEPT ![i] = LineFailed([@ EXCEPT !.storeFailed = TRUE], "store-error")]
    /\ UNCHANGED <<store, users, blobs, nEvents>>
    /\ UNCHANGED authVars
    /\ UNCHANGED apiVars
    /\ UNCHANGED callVars

\* lines 199-202: the dedup lookup
Lookup(i) ==
    /\ inv[i].pc = "line"
    /\ LET h == inv[i]
           q == Line(h)
       IN  \/ /\ get_by_query(q) # {}          \* "Entry already exists": continue
              /\ inv' = [inv EXCEPT ![i] = NextLine(h, "skipped")]
              /\ UNCHANGED faults
           \/ /\ get_by_query(q) = {}
              /\ inv' = [inv EXCEPT ![i].pc = "generate"]
              /\ UNCHANGED faults
           \/ /\ CanFail                        \* table.query raises
              /\ faults' = faults + 1
              /\ inv' = [inv EXCEPT ![i] = LineFailed([h EXCEPT !.storeFailed = TRUE], "store-error")]
    /\ UNCHANGED <<store, users, blobs, nEvents>>
    /\ UNCHANGED authVars
    /\ UNCHANGED apiVars
    /\ UNCHANGED callVars

NewTask(text) == [text |-> text, st |-> "new", job |-> 0, result |-> None, doneAt |-> 0]

RECURSIVE ExampleTexts(_)
\* [ex.de for ex in examples]
ExampleTexts(pairs) ==
    IF pairs = <<>> THEN <<>> ELSE <<Head(pairs).de>> \o ExampleTexts(Tail(pairs))

\* generate_audio_files: tasks = [get_audio(query), *[get_audio(text) ...]]
FanOut(query, example_texts) ==
    [k \in 1..(Len(example_texts) + 1) |->
        NewTask(IF k = 1 THEN query ELSE example_texts[k - 1])]

\* the audio of the query requested whatever the generator gave: a response
\* that cannot be parsed still starts the get_audio task of the query
GenerateThenAudioAnyway(i) ==
    /\ inv[i].pc = "generate"
    /\ \E response \in Responses : \E c \in {parse_claude_response(response)} :
         inv' = [inv EXCEPT ![i] =
                   [inv[i] EXCEPT !.pc = "fanout", !.content = c,
                                  !.tasks = FanOut(Line(inv[i]),
                                                   IF c.ok THEN ExampleTexts(c.example_pairs)
                                                   ELSE <<>>)]]
    /\ UNCHANGED <<store, users, blobs, nEvents, faults>>
    /\ UNCHANGED authVars
    /\ UNCHANGED apiVars
    /\ UNCHANGED callVars

\* line 144: get_examples_from_claude, then the tasks of the fan-out are made
Generate(i) ==
    /\ inv[i].pc = "generate"
    /\ LET h == [inv[i] EXCEPT !.asked = [query |-> Line(inv[i]), level |-> inv[i].level,
                                          context |-> inv[i].context]]
           q == Line(h)
       IN  \/ /\ CanFail                        \* client.messages.create raises
              /\ faults' = faults + 1
              /\ inv' = [inv EXCEPT ![i] = LineFailed(h, "llm-error")]
           \/ \E response \in Responses :
                LET c == parse_claude_response(response)
                IN  /\ UNCHANGED faults
                    /\ IF c.ok
                       THEN /\ inv' = [inv EXCEPT ![i] =
                                         [h EXCEPT !.pc = "fanout", !.content = c,
                                                   !.tasks = FanOut(q, ExampleTexts(c.example_pairs))]]
                       ELSE /\ inv' = [inv EXCEPT ![i] = LineFailed(h, "parse-error")]
    /\ UNCHANGED <<store, users, blobs, nEvents>>
    /\ UNCHANGED authVars
    /\ UNCHANGED apiVars
    /\ UNCHANGED callVars


\* ------------------------------------------------ get_audio, one coroutine
\* The event loop runs one coroutine at a time, from one await to the next,
\* so each action below is one such stretch of one get_audio coroutine. Every
\* task created by gather is started, in task order, before any sleeping task
\* is woken. What Polly answers to a poll is chosen when the poll is made.
NewTasks(h) == {k \in 1..Len(h.tasks) : h.tasks[k].st = "new"}
NumDone(h)  == Cardinality({k \in 1..Len(h.tasks) : h.tasks[k].st = "done"})

\* "return x" of get_audio in task k
Finish(h, k, x) ==
    [h EXCEPT !.tasks[k].st = "done", !.tasks[k].result = x,
              !.tasks[k].doneAt = NumDone(h) + 1]

\* A task id Polly has not used: none of a task being polled or of an object
\* left in the bucket
FreshTaskId ==
    LET free == {j \in 1..(Cardinality(blobs) + Cardinality(Workers) * MaxRespLines + 1) :
                    PollyKey(j) \notin blobs /\
                    \A w \in Workers : \A k \in 1..Len(inv[w].tasks) : inv[w].tasks[k].job # j}
    IN  CHOOSE j \in free : \A y \in free : j <= y

\* one iteration of the polling loop when get_audio has no "except Exception":
\* a failure leaves get_audio and reaches the handler of the line
PollOutcomesRaising(h, k, j, bucket) ==
    LET filename == FileName(h.tasks[k].text)
    IN  {[h |-> LineFailed(h, "audio-error"), blobs |-> bucket, nf |-> 1],
         [h |-> [h EXCEPT !.tasks[k].st = "sleeping"], blobs |-> bucket, nf |-> 0],
         [h |-> LineFailed(h, "audio-error"), blobs |-> bucket \cup {PollyKey(j)}, nf |-> 1],
         [h |-> LineFailed(h, "audio-error"),
          blobs |-> bucket \cup {PollyKey(j), S3Key(filename)}, nf |-> 1],
         [h |-> Finish(h, k, filename),
          blobs |-> bucket \cup {S3Key(filename)}, nf |-> 0]}

\* one iteration of the polling loop without the delete_object of line 112:
\* Polly's output object stays in the bucket
PollOutcomesKeepScratch(h, k, j, bucket) ==
    LET filename == FileName(h.tasks[k].text)
    IN  {[h |-> Finish(h, k, None), blobs |-> bucket, nf |-> 1],
         [h |-> [h EXCEPT !.tasks[k].st = "sleeping"], blobs |-> bucket, nf |-> 0],
         [h |-> Finish(h, k, None), blobs |-> bucket \cup {PollyKey(j)}, nf |-> 1],
         [h |-> Finish(h, k, filename),
          blobs |-> bucket \cup {PollyKey(j), S3Key(filename)}, nf |-> 0]}

\* one iteration of a polling loop that gives up when the job is still in
\* progress
PollOutcomesOnePoll(h, k, j, bucket) ==
    LET filename == FileName(h.tasks[k].text)
    IN  {[h |-> Finish(h, k, None), blobs |-> bucket, nf |-> 1],
         [h |-> Finish(h, k, None), blobs |-> bucket, nf |-> 0],
         [h |-> Finish(h, k, None), blobs |-> bucket \cup {PollyKey(j)}, nf |-> 1],
         [h |-> Finish(h, k, None),
          blobs |-> bucket \cup {PollyKey(j), S3Key(filename)}, nf |-> 1],
         [h |-> Finish(h, k, filename),
          blobs |-> bucket \cup {S3Key(filename)}, nf |-> 0]}

\* lines 94-121: one iteration of the polling loop of task k, whose job is j.
\* Gives the local state and the bucket afterwards, for each answer of Polly
\* and each outcome of the S3 calls; nf is the number of calls that failed.
PollOutcomes(h, k, j, bucket) ==
    LET filename == FileName(h.tasks[k].text)
    IN  {[h |-> Finish(h, k, None), blobs |-> bucket, nf |-> 1],          \* the poll raises
         [h |-> [h EXCEPT !.tasks[k].st = "sleeping"], blobs |-> bucket, nf |-> 0],
                                                                          \* still running: sleep
         [h |-> Finish(h, k, None), blobs |-> bucket, nf |-> 1],          \* 'failed'
         \* 'completed': Polly has written its output object
         [h |-> Finish(h, k, None), blobs |-> bucket \cup {PollyKey(j)}, nf |-> 1],
                                                                          \* copy_object raises
         [h |-> Finish(h, k, None),
          blobs |-> bucket \cup {PollyKey(j), S3Key(filename)}, nf |-> 1], \* delete_object raises
         [h |-> Finish(h, k, filename),
          blobs |-> bucket \cup {S3Key(filename)}, nf |-> 0]}

\* lines 66-121 up to the first await: the existence check, the submission of
\* the job and the first poll
TaskBegin(i) ==
    /\ inv[i].pc = "fanout"
    /\ NewTasks(inv[i]) # {}
    /\ LET h == inv[i]
           k == CHOOSE x \in NewTasks(h) : \A y \in NewTasks(h) : x <= y
           text == h.tasks[k].text
           filename == FileName(text)
           j == FreshTaskId
       IN  \/ /\ S3Key(filename) \in blobs      \* head_object succeeds
              /\ inv' = [inv EXCEPT ![i] = Finish(h, k, filename)]
              /\ UNCHANGED <<blobs, faults>>
           \/ \* head_object raises: the key is absent, or the call failed
              LET n0 == IF S3Key(filename) \in blobs THEN 1 ELSE 0
              IN  \/ /\ faults + n0 + 1 <= MaxFaults   \* start_speech_synthesis_task raises
                     /\ faults' = faults + n0 + 1
                     /\ inv' = [inv EXCEPT ![i] = Finish(h, k, None)]
                     /\ UNCHANGED blobs
                  \/ \E o \in PollOutcomes([h EXCEPT !.tasks[k].job = j], k, j, blobs) :
                       /\ faults + n0 + o.nf <= MaxFaults
                       /\ faults' = faults + n0 + o.nf
                       /\ inv' = [inv EXCEPT ![i] = o.h]
                       /\ blobs' = o.blobs
    /\ UNCHANGED <<store, users, nEvents>>
    /\ UNCHANGED authVars
    /\ UNCHANGED apiVars
    /\ UNCHANGED callVars

\* a sleeping task that is woken while later tasks have not started: what
\* "for text in texts: await get_audio(text)" would do
TaskPollBeforeOthersStart(i, k) ==
    /\ inv[i].pc = "fanout"
    /\ k \in 1..Len(inv[i].tasks)
    /\ inv[i].tasks[k].st = "sleeping"
    /\ \E o \in PollOutcomes(inv[i], k, inv[i].tasks[k].job, blobs) :
         /\ faults + o.nf <= MaxFaults
         /\ faults' = faults + o.nf
         /\ inv' = [inv EXCEPT ![i] = o.h]
         /\ blobs' = o.blobs
    /\ UNCHANGED <<store, users, nEvents>>
    /\ UNCHANGED authVars
    /\ UNCHANGED apiVars
    /\ UNCHANGED callVars

\* the sleep of task k is over: the next iteration of its polling loop
TaskPoll(i, k) ==
    /\ inv[i].pc = "fanout"
    /\ NewTasks(inv[i]) = {}
    /\ k \in 1..Len(inv[i].tasks)
    /\ inv[i].tasks[k].st = "sleeping"
    /\ \E o \in PollOutcomes(inv[i], k, inv[i].tasks[k].job, blobs) :
         /\ faults + o.nf <= MaxFaults
         /\ faults' = faults + o.nf
         /\ inv' = [inv EXCEPT ![i] = o.h]
         /\ blobs' = o.blobs
    /\ UNCHANGED <<store, users, nEvents>>
    /\ UNCHANGED authVars
    /\ UNCHANGED apiVars
    /\ UNCHANGED callVars

\* ------------------------------------- generate_audio_files and the entry
\* results in the order in which the tasks finished
GatherAsCompleted(tasks) ==
    [n \in 1..Len(tasks) |-> tasks[CHOOSE k \in 1..Len(tasks) : tasks[k].doneAt = n].result]

\* results = await asyncio.gather(*tasks): one result per task, in task order
Gather(tasks) == [k \in 1..Len(tasks) |-> tasks[k].result]

\* return results[0], results[1:]
generate_audio_files(tasks) ==
    LET results == Gather(tasks)
    IN  [query_audio |-> results[1], example_audios |-> Tail(results)]

\* lines 147-163: the examples, each with the audio zipped to it
AttachAudio(pairs, audios) ==
    [k \in 1..Min(Len(pairs), Len(audios)) |->
        [de |-> pairs[k].de, ru |-> pairs[k].ru, audio_file |-> audios[k]]]

\* lines 152-172, once every task of the fan-out has returned
create_language_entry(query, content, tasks, id) ==
    LET audio == generate_audio_files(tasks)
    IN  [id |-> id,
         query |-> query,
         definition |-> content.definition,
         translation |-> content.translation,
         examples |-> AttachAudio(content.example_pairs, audio.example_audios),
         audio_file |-> audio.query_audio]

\* a wait that ends with the first task that returns
FirstDone(h) == \E k \in 1..Len(h.tasks) : h.tasks[k].st = "done"

AllDone(h) == \A k \in 1..Len(h.tasks) : h.tasks[k].st = "done"

\* str(uuid.uuid4()): an id no stored entry and no entry being built has
FreshId ==
    LET used == {e.id : e \in store} \cup {inv[w].entry.id : w \in Workers}
        free == {n \in 1..(Cardinality(used) + 1) : n \notin used}
    IN  CHOOSE n \in free : \A m \in free : n <= m

\* the entry is built only when every get_audio call returned a filename:
\* a missing audio fails the line
AssembleRequiresAudio(i) ==
    /\ inv[i].pc = "fanout"
    /\ AllDone(inv[i])
    /\ inv' = [inv EXCEPT ![i] =
                 IF \E k \in 1..Len(@.tasks) : @.tasks[k].result = None
                 THEN LineFailed(@, "audio-error")
                 ELSE [@ EXCEPT !.pc = "save",
                                !.entry = create_language_entry(Line(@), @.content,
                                                                @.tasks, FreshId)]]
    /\ UNCHANGED <<store, users, blobs, nEvents, faults>>
    /\ UNCHANGED authVars
    /\ UNCHANGED apiVars
    /\ UNCHANGED callVars

\* run_until_complete returns; the entry is built with a fresh id
Assemble(i) ==
    /\ inv[i].pc = "fanout"
    /\ AllDone(inv[i])
    /\ inv' = [inv EXCEPT ![i].pc = "save",
                          ![i].entry = create_language_entry(Line(inv[i]), inv[i].content,
                                                             inv[i].tasks, FreshId)]
    /\ UNCHANGED <<store, users, blobs, nEvents, faults>>
    /\ UNCHANGED authVars
    /\ UNCHANGED apiVars
    /\ UNCHANGED callVars

\* line 206: entry.save()
Save(i) ==
    /\ inv[i].pc = "save"
    /\ LET h == inv[i]
       IN  \/ /\ store' = PutEntry(store, h.entry)
              /\ inv' = [inv EXCEPT ![i] = NextLine(h, "saved")]
              /\ UNCHANGED faults
           \/ /\ CanFail                        \* put_item raises
              /\ faults' = faults + 1
              /\ inv' = [inv EXCEPT ![i] = LineFailed([h EXCEPT !.storeFailed = TRUE], "store-error")]
              /\ UNCHANGED store
    /\ UNCHANGED <<users, blobs, nEvents>>
    /\ UNCHANGED authVars
    /\ UNCHANGED apiVars
    /\ UNCHANGED callVars

\* process.lambda_handler, one step of one invocation
lambda_handler(i) ==
    \/ Receive(i)
    \/ RecordMalformed(i)
    \/ RecordUserLookupFails(i)
    \/ RecordBegin(i)
    \/ LinesDone(i)
    \/ Lookup(i)
    \/ Generate(i)
    \/ TaskBegin(i)
    \/ \E k \in 1..MaxRespLines : TaskPoll(i, k)
    \/ Assemble(i)
    \/ Save(i)

Next ==
    \E i \in Sequential : lambda_handler(i)

Spec == Init /\ [][Next]_vars

\* ---- two invocations at once: each was given one message of one line and
\* has reached the loop over the lines (line 194)
\* an entry saved by an invocation that has returned
EarlierEntry ==
    [id |-> 1, query |-> <<"a">>, definition |-> <<"a">>, translation |-> <<"t">>,
     examples |-> <<>>, audio_file |-> None]

AtLine(q) == [Idle EXCEPT !.pc = "line", !.nrec = 1, !.rec = 1, !.lines = <<q>>, !.ln = 1]

ConcInit ==
    /\ \E q1, q2 \in Words : inv = [i \in Workers |-> AtLine(IF i = 1 THEN q1 ELSE q2)]
    /\ store \in {{}, {EarlierEntry}}
    /\ users = {}
    /\ blobs = {}
    /\ nEvents = MaxEvents
    /\ faults = 0
    /\ TELEGRAM_TOKEN = "T1"
    /\ AuthIdle

\* one step of invocation i, from its line to its return
ConcStep(i) ==
    \/ LinesDone(i)
    \/ Lookup(i)
    \/ Generate(i)
    \/ TaskBegin(i)
    \/ \E k \in 1..MaxRespLines : TaskPoll(i, k)
    \/ Assemble(i)
    \/ Save(i)

ConcNext ==
    \E i \in Workers : ConcStep(i)

ConcSpec == ConcInit /\ [][ConcNext]_vars

\* ---- one invocation at one line, with the event loop running every task
\* that can run and Polly giving a terminal answer to a job that is polled
\* again and again
FanInit ==
    /\ \E q \in Words : inv = [i \in Workers |-> IF i \in Sequential THEN AtLine(q) ELSE Idle]
    /\ store \in {{}, {EarlierEntry}}
    /\ users = {}
    /\ blobs = {}
    /\ nEvents = MaxEvents
    /\ faults = 0
    /\ TELEGRAM_TOKEN = "T1"
    /\ AuthIdle

FanNext ==
    \E i \in Sequential : ConcStep(i)

\* the handler and the event loop go on whenever they can
Scheduling ==
    \A i \in Sequential :
        /\ WF_vars(LinesDone(i))
        /\ WF_vars(Lookup(i))
        /\ WF_vars(Generate(i))
        /\ WF_vars(TaskBegin(i))
        /\ WF_vars(Assemble(i))
        /\ WF_vars(Save(i))

\* a job polled for ever is at some poll reported completed or failed (or the
\* poll raises): a poll that finds it in progress leaves the state as it was
ProviderAnswers ==
    \A i \in Sequential : \A k \in 1..MaxRespLines : WF_vars(TaskPoll(i, k))

FanSpec == FanInit /\ [][FanNext]_vars /\ Scheduling /\ ProviderAnswers

\* the same without any promise of Polly
FanSpecNoAnswer == FanInit /\ [][FanNext]_vars /\ Scheduling

\* ---- the pipeline for users who have set their level and context (bot.py
\* set_level and set_context save them through User.save)
StoredUsers ==
    {[user_id |-> "u1", level |-> l, context |-> c, admin |-> FALSE] :
        l \in {"A1", "B2"}, c \in {<<>>, <<"c">>}}

PersonalInit ==
    /\ inv = [i \in Workers |-> Idle]
    /\ store = {}
    /\ users \in {{}} \cup {{u} : u \in StoredUsers}
    /\ blobs = {}
    /\ nEvents = MaxEvents - 1
    /\ faults = 0
    /\ TELEGRAM_TOKEN = "T1"
    /\ AuthIdle

PersonalSpec == PersonalInit /\ [][Next]_vars


\* ------------------------------------------------------------- tg_tools.py
MaxParams == 2   \* fields of one initData besides hash

AMP == "&"
EQ  == "="
PCT == "%"
HASH == <<"h", "a", "s", "h">>
USER == <<"u", "s", "e", "r">>
\* the member "id":7 and the member "a":1 of a JSON object, one symbol each
IDTOK    == "\"id\":7"
OTHERTOK == "\"a\":1"

\* dictionaries are sequences of <<key, value>> in insertion order
DictHas(d, k) == \E i \in 1..Len(d) : d[i][1] = k
DictGet(d, k, default) ==
    IF DictHas(d, k) THEN d[CHOOSE i \in 1..Len(d) : d[i][1] = k][2] ELSE default
DictSet(d, k, v) ==
    IF DictHas(d, k)
    THEN [i \in 1..Len(d) |-> IF d[i][1] = k THEN <<k, v>> ELSE d[i]]
    ELSE Append(d, <<k, v>>)
DictPop(d, k) == SelectSeq(d, LAMBDA p : p[1] # k)
DictKeys(d) == {d[i][1] : i \in 1..Len(d)}

\* code points of the characters in use
Ascii == << <<10, NL>>, <<32, SP>>, <<37, "%">>, <<38, "&">>, <<49, "1">>, <<55, "7">>,
            <<61, "=">>, <<66, "B">>, <<68, "D">>, <<97, "a">>, <<98, "b">>,
            <<101, "e">>, <<104, "h">>, <<114, "r">>, <<115, "s">>, <<117, "u">>,
            <<120, "x">>, <<123, "{">>, <<125, "}">> >>
Ord(c) ==
    IF \E i \in 1..Len(Ascii) : Ascii[i][2] = c
    THEN Ascii[CHOOSE i \in 1..Len(Ascii) : Ascii[i][2] = c][1]
    ELSE 1000   \* a symbol outside the table sorts last
\* bytes.decode('utf-8', 'replace') of one byte
Chr(n) ==
    IF n >= 128 THEN "\\ufffd"
    ELSE IF \E i \in 1..Len(Ascii) : Ascii[i][1] = n
         THEN Ascii[CHOOSE i \in 1..Len(Ascii) : Ascii[i][1] = n][2]
         ELSE "chr" \o ToString(n)

HexLower == <<"0", "1", "2", "3", "4", "5", "6", "7", "8", "9", "a", "b", "c", "d", "e", "f">>
HexUpper == <<"A", "B", "C", "D", "E", "F">>
IsHex(c) == (\E i \in 1..Len(HexLower) : HexLower[i] = c) \/ (\E i \in 1..Len(HexUpper) : HexUpper[i] = c)
HexVal(c) ==
    IF \E i \in 1..Len(HexLower) : HexLower[i] = c
    THEN (CHOOSE i \in 1..Len(HexLower) : HexLower[i] = c) - 1
    ELSE (CHOOSE i \in 1..Len(HexUpper) : HexUpper[i] = c) + 9

RECURSIVE unquote(_)
\* urllib.parse.unquote: %xx with two hex digits is decoded, anything else is kept
unquote(s) ==
    IF s = <<>> THEN <<>>
    ELSE IF Head(s) = PCT /\ Len(s) >= 3 /\ IsHex(s[2]) /\ IsHex(s[3])
         THEN <<Chr(16 * HexVal(s[2]) + HexVal(s[3]))>> \o unquote(SubSeq(s, 4, Len(s)))
         ELSE <<Head(s)>> \o unquote(Tail(s))

\* param.split('=', 1) of a param that contains '='
SplitFirst(s, sep) ==
    LET i == CHOOSE j \in 1..Len(s) : s[j] = sep /\ \A m \in 1..(j - 1) : s[m] # sep
    IN  <<SubSeq(s, 1, i - 1), SubSeq(s, i + 1, Len(s))>>

RECURSIVE ParseParams(_, _)
\* the loop over init_data_str.split('&')
ParseParams(params, parsed_data) ==
    IF params = <<>> THEN parsed_data
    ELSE LET param == Head(params)
         IN  IF Contains(param, EQ)
             THEN LET kv == SplitFirst(param, EQ)
                  IN  ParseParams(Tail(params), DictSet(parsed_data, kv[1], unquote(kv[2])))
             ELSE ParseParams(Tail(params), parsed_data)

RECURSIVE LexLess(_, _)
\* str < str
LexLess(a, b) ==
    IF a = <<>> THEN b # <<>>
    ELSE IF b = <<>> THEN FALSE
    ELSE IF Ord(Head(a)) < Ord(Head(b)) THEN TRUE
    ELSE IF Ord(Head(a)) > Ord(Head(b)) THEN FALSE
    ELSE LexLess(Tail(a), Tail(b))

RECURSIVE sorted(_)
\* sorted(keys)
sorted(keys) ==
    IF keys = {} THEN <<>>
    ELSE LET m == CHOOSE x \in keys : \A y \in keys : ~LexLess(y, x)
         IN  <<m>> \o sorted(keys \ {m})

\* '\n'.join(f"{key}={data[key]}" for key in sorted(data.keys()))
DataCheckString(data_without_hash) ==
    LET keys == sorted(DictKeys(data_without_hash))
    IN  Join([i \in 1..Len(keys) |-> keys[i] \o <<EQ>> \o DictGet(data_without_hash, keys[i], <<>>)], NL)

RECURSIVE Encode(_)
\* str.encode(): the characters as one byte string
Encode(s) == IF s = <<>> THEN "" ELSE Head(s) \o Encode(Tail(s))

\* hmac.new(key, msg, sha256).digest(): one value per (key, msg)
HmacSha256(key, msg) == "hmac(" \o key \o "," \o msg \o ")"
\* .hexdigest(): the digest as characters; two stand for the sixty-four
HexDigest(d) == <<"hex1of:" \o d, "hex2of:" \o d>>

CalculatedHash(token, data_check_string) ==
    HexDigest(HmacSha256(HmacSha256("WebAppData", token), Encode(data_check_string)))

\* calculated_hash == received_hash
HashEq(calculated_hash, received_hash) == calculated_hash = received_hash

JsonWs == {SP, NL}
JsonDigits == {"1", "2", "3", "4", "5", "6", "7", "8", "9"}
\* json.loads on the texts in use: objects, integers, anything else fails
JsonLoads(text) ==
    LET t == SelectSeq(text, LAMBDA c : c \notin JsonWs)
    IN  IF t \in {<<"{", "}">>, <<"{", IDTOK, "}">>, <<"{", OTHERTOK, "}">>}
        THEN [ok |-> TRUE, isDict |-> TRUE, value |-> t]
        ELSE IF t # <<>> /\ \A i \in 1..Len(t) : t[i] \in JsonDigits
        THEN [ok |-> TRUE, isDict |-> FALSE, value |-> t]
        ELSE [ok |-> FALSE, isDict |-> FALSE, value |-> None]

\* user_data.get('id')
UserGetId(user_data) == IF user_data = <<"{", IDTOK, "}">> THEN <<"7">> ELSE None
\* str(x); str(None) is the text 'None', which is not None
Str(x) == <<"'">> \o x \o <<"'">>
\* bool(user_data)
Truthy(user_data) == user_data \notin {None, <<"{", "}">>}

Ret(is_valid, user_data) == [is_valid |-> is_valid, user_data |-> user_data, raised |-> FALSE]
Raised == [is_valid |-> FALSE, user_data |-> None, raised |-> TRUE]

\* lines 81-87: json.loads of the user field and the log line that reads its id
UserResult(is_valid, j) ==
    IF ~j.ok THEN Ret(is_valid, None)     \* JSONDecodeError is caught
    ELSE IF ~j.isDict THEN Raised         \* user_data.get raises AttributeError
    ELSE Ret(is_valid, j.value)

\* lines 80-89: the user payload, read only from data that validated
UserPart(parsed_data, is_valid) ==
    IF is_valid /\ DictHas(parsed_data, USER)
    THEN UserResult(is_valid, JsonLoads(DictGet(parsed_data, USER, <<>>)))
    ELSE Ret(is_valid, None)

\* lines 47-78: the hash is taken out and compared with the calculated one
CheckHash(parsed_data, received_hash, token) ==
    IF received_hash \in {None, <<>>} THEN Ret(FALSE, None)
    ELSE UserPart(parsed_data,
                  HashEq(CalculatedHash(token, DataCheckString(DictPop(parsed_data, HASH))),
                         received_hash))

\* received_hash = parsed_data.get('hash')
Validated(parsed_data, token) == CheckHash(parsed_data, DictGet(parsed_data, HASH, None), token)

\* the body of the try block of validate_tg_init_data
ValidateBody(init_data_str, token) ==
    IF token = "" THEN Ret(FALSE, None)
    ELSE Validated(ParseParams(Split(init_data_str, AMP), <<>>), token)

\* except Exception: return False, None
Caught(r) == IF r.raised THEN Ret(FALSE, None) ELSE r

\* validate_tg_init_data: (is_valid, user_data); it catches what its body raises
validate_tg_init_data(init_data_str, token) == Caught(ValidateBody(init_data_str, token))

TelegramPrefix == <<"T", "e", "l", "e", "g", "r", "a", "m", SP>>
StartsWith(s, prefix) == Len(s) >= Len(prefix) /\ SubSeq(s, 1, Len(prefix)) = prefix

\* auth_header[9:] whatever the header starts with
ExtractAnyScheme(auth_header) == SubSeq(auth_header, 10, Len(auth_header))

\* init_data: auth_header[9:] if auth_header.startswith('Telegram '), else None
ExtractInitData(auth_header) ==
    IF StartsWith(auth_header, TelegramPrefix)
    THEN SubSeq(auth_header, 10, Len(auth_header))
    ELSE None

\* headers.get('Authorization') or headers.get('authorization', '')
AuthHeader(ev) ==
    LET headers == IF ev.headersNull THEN <<>> ELSE ev.headers
        a == DictGet(headers, "Authorization", None)
    IN  IF a \notin {None, <<>>} THEN a ELSE DictGet(headers, "authorization", <<>>)

\* the three keys set only where the authorizer does not have them
AttachSetDefault(authorizer, is_valid, user_data, user_id) ==
    LET a1 == IF DictHas(authorizer, "is_authenticated") THEN authorizer
              ELSE DictSet(authorizer, "is_authenticated", is_valid)
        a2 == IF DictHas(a1, "user_data") THEN a1 ELSE DictSet(a1, "user_data", user_data)
    IN  IF DictHas(a2, "user_id") THEN a2 ELSE DictSet(a2, "user_id", user_id)

\* the three assignments to event['requestContext']['authorizer']
Attach(authorizer, is_valid, user_data, user_id) ==
    DictSet(DictSet(DictSet(authorizer, "is_authenticated", is_valid),
                    "user_data", user_data),
            "user_id", user_id)

\* the downstream handler: its result tells what it found in the event
handler(ev) ==
    [is_authenticated |-> DictGet(ev.authorizer, "is_authenticated", FALSE),
     user_id |-> DictGet(ev.authorizer, "user_id", None)]

\* user_id = str(user_data.get('id')) if is_valid and user_data, else None
UserIdOf(is_valid, user_data) ==
    IF is_valid /\ Truthy(user_data) THEN Str(UserGetId(user_data)) ELSE None

\* lines 141-151: requestContext and authorizer are created if missing, then set
Authorized(ev, res) ==
    [ev EXCEPT !.hasRequestContext = TRUE, !.hasAuthorizer = TRUE,
               !.authorizer = Attach(IF ev.hasRequestContext /\ ev.hasAuthorizer
                                     THEN ev.authorizer ELSE <<>>,
                                     res.is_valid, res.user_data,
                                     UserIdOf(res.is_valid, res.user_data))]

\* return handler(event, context): one call, its result is the middleware's
CallHandler(ev2, nValidate, res) ==
    [event |-> ev2, nValidate |-> nValidate, vres |-> res,
     nHandler |-> 1, response |-> handler(ev2)]

\* lines 126-138 and on, with the validator's result or without one
AfterValidation(ev, called, res) ==
    CallHandler(Authorized(ev, res), IF called THEN 1 ELSE 0, res)

\* if init_data: is_valid, user_data = validate_tg_init_data(init_data)
WithInitData(ev, init_data, token) ==
    IF init_data \notin {None, <<>>}
    THEN AfterValidation(ev, TRUE, validate_tg_init_data(init_data, token))
    ELSE AfterValidation(ev, FALSE, NotValidated)

\* session_middleware on an event: the event afterwards, the calls made, the result
session_middleware(ev, token) == WithInitData(ev, ExtractInitData(AuthHeader(ev)), token)

\* ------------------------------------------------------- requests (inputs)
Tokens == {"", "T1"}

\* raw parameters of an initData
Params == { <<"a", EQ, "1">>,
            USER \o <<EQ, PCT, "7", "B", IDTOK, PCT, "7", "D">>,
            USER \o <<EQ, PCT, "7", "B", PCT, "7", "D">>,
            USER \o <<EQ, PCT, "7", "B", OTHERTOK, PCT, "7", "D">>,
            USER \o <<EQ, "7">>,
            USER \o <<EQ, PCT, "7", "B">>,
            <<"x">> }

\* the hash parameter a holder of token signs the parameters with
HashParam(params, token) ==
    HASH \o <<EQ>> \o CalculatedHash(token, DataCheckString(ParseParams(params, <<>>)))

\* signed by the bot's token or unsigned, and, for the short ones, signed by
\* another token, with the hash first, or with an empty hash
InitDatas ==
    LET bodies == SeqsUpTo(Params, MaxParams)
        short == SeqsUpTo(Params, MaxParams - 1)
    IN  {Join(Append(b, HashParam(b, "T1")), AMP) : b \in bodies}
        \cup {Join(b, AMP) : b \in bodies}
        \cup {Join(Append(b, HashParam(b, "T2")), AMP) : b \in short}
        \cup {Join(<<HashParam(b, "T1")>> \o b, AMP) : b \in short}
        \cup {Join(Append(b, HASH \o <<EQ>>), AMP) : b \in short}

HeaderSets ==
    {<<>>}
    \cup { << <<"Authorization", TelegramPrefix \o d>> >> : d \in InitDatas }
    \cup { << <<"authorization", TelegramPrefix \o d>> >> : d \in InitDatas }
    \cup { << <<"Authorization", <<"t">> \o Tail(TelegramPrefix) \o d>> >> : d \in InitDatas }

\* an authorizer context that already says the request is authenticated
PresetAuthorizer ==
    << <<"principalId", <<"p">> >>, <<"is_authenticated", TRUE>>,
       <<"user_id", Str(<<"9">>)>>, <<"user_data", <<"{", OTHERTOK, "}">> >> >>

Events ==
    {[headersNull |-> FALSE, headers |-> h, hasRequestContext |-> rc[1],
      hasAuthorizer |-> rc[2], authorizer |-> rc[3]] :
        h \in HeaderSets,
        rc \in {<<FALSE, FALSE, <<>> >>, <<TRUE, TRUE, PresetAuthorizer>>}}
    \cup {NoEvent, [NoEvent EXCEPT !.hasRequestContext = TRUE],
          [NoEvent EXCEPT !.hasRequestContext = TRUE, !.hasAuthorizer = TRUE,
                          !.authorizer = PresetAuthorizer]}

TamperChars == {AMP, EQ, NL, "b", "x"}

\* ----------------------------------------------------- the API function
\* a request arrives
Request ==
    /\ mw.pc = "idle"
    /\ \E ev \in Events : event' = ev
    /\ tamper' = NoTamper
    /\ mw' = [MwIdle EXCEPT !.pc = "received"]
    /\ UNCHANGED TELEGRAM_TOKEN
    /\ UNCHANGED pipeVars
    /\ UNCHANGED apiVars
    /\ UNCHANGED callVars

\* somebody changes one character of the initData on its way
Tamper ==
    /\ mw.pc = "received"
    /\ ~tamper.done
    /\ ~event.headersNull
    /\ Len(event.headers) = 1
    /\ StartsWith(event.headers[1][2], TelegramPrefix)
    /\ LET name == event.headers[1][1]
           orig == ExtractInitData(event.headers[1][2])
       IN  \E p \in 1..Len(orig) : \E c \in TamperChars :
             /\ c # orig[p]
             /\ event' = [event EXCEPT !.headers =
                            << <<name, TelegramPrefix \o [orig EXCEPT ![p] = c]>> >>]
             /\ tamper' = [done |-> TRUE, orig |-> orig,
                           res |-> validate_tg_init_data(orig, TELEGRAM_TOKEN)]
    /\ UNCHANGED <<TELEGRAM_TOKEN, mw>>
    /\ UNCHANGED pipeVars
    /\ UNCHANGED apiVars
    /\ UNCHANGED callVars

\* session_middleware runs on the request and calls the handler
Middleware ==
    /\ mw.pc = "received"
    /\ \E r \in {session_middleware(event, TELEGRAM_TOKEN)} :
          /\ event' = r.event
          /\ mw' = [pc |-> "done", before |-> event, nValidate |-> r.nValidate,
                    vres |-> r.vres, nHandler |-> r.nHandler, response |-> r.response]
    /\ UNCHANGED <<TELEGRAM_TOKEN, tamper>>
    /\ UNCHANGED pipeVars
    /\ UNCHANGED apiVars
    /\ UNCHANGED callVars

\* the result goes back to the caller; the event and the locals are gone
Respond ==
    /\ mw.pc = "done"
    /\ event' = NoEvent
    /\ tamper' = NoTamper
    /\ mw' = MwIdle
    /\ UNCHANGED TELEGRAM_TOKEN
    /\ UNCHANGED pipeVars
    /\ UNCHANGED apiVars
    /\ UNCHANGED callVars

AuthInit ==
    /\ PipeInit
    /\ TELEGRAM_TOKEN \in Tokens
    /\ AuthIdle

AuthNext ==
    \/ Request
    \/ Tamper
    \/ Middleware
    \/ Respond

AuthSpec == AuthInit /\ [][AuthNext]_vars

\* ------------------------------------------------------------------ api.py
MaxEntries == 2   \* entries in the table when a request arrives

Routes == {"get_app", "get_collection", "delete_entry"}

\* auth(require_auth): raises BadRequestError("Authentication required"), or
\* returns what the authorizer context holds
auth(authorizer, require_auth) ==
    [raised |-> require_auth /\ (~DictGet(authorizer, "is_authenticated", FALSE)
                                 \/ DictGet(authorizer, "user_id", None) \in {None, <<>>}),
     is_authenticated |-> DictGet(authorizer, "is_authenticated", FALSE),
     user_id |-> DictGet(authorizer, "user_id", None),
     user_data |-> DictGet(authorizer, "user_data", None)]

\* what a route gives back: the response, the store calls made, the table afterwards
Resp(status, kind, reads, writes, table) ==
    [status |-> status, kind |-> kind, reads |-> reads, writes |-> writes, table |-> table]

\* get_app: auth(require_auth=False) and the page
get_app(ev, table) == Resp(200, "ok", 0, 0, table)

\* error_handler(e) with its default status code raises InternalServerError,
\* which handle_internal_server_error turns into a 500 response
error_handler(reads, table) == Resp(500, "InternalServerError", reads, 0, table)

\* get_collection: any exception of its body, the one of auth included, goes
\* to error_handler
get_collection(ev, table) ==
    IF auth(ev.authorizer, TRUE).raised THEN error_handler(0, table)
    ELSE Resp(200, "ok", 1, 0, table)

\* entry.get('user_id') of a stored item
EntryUserId(e) == IF "user_id" \in DOMAIN e THEN e.user_id ELSE None

\* what 'raise ServiceError(msg)' with one argument ends in: the ServiceError
\* handler's response, or the TypeError of the constructor that
\* api.lambda_handler turns into its own 500 page
ServiceErrorKinds == {"ServiceError", "TypeError"}

\* delete_entry without the ownership check of lines 139-141
DeleteForAnyOwner(user_id, item_id, table, kind) ==
    IF ~\E e \in table : e.id = item_id
    THEN Resp(500, kind, 1, 0, table)
    ELSE Resp(200, "ok", 1, 1, {e \in table : e.id # item_id})

\* lines 131-153 of delete_entry, for an authenticated caller
DeleteFor(user_id, item_id, table, kind) ==
    IF ~\E e \in table : e.id = item_id
    THEN Resp(500, kind, 1, 0, table)            \* NotFoundError, caught at line 154
    ELSE IF EntryUserId(CHOOSE e \in table : e.id = item_id) # user_id
    THEN Resp(500, kind, 1, 0, table)            \* BadRequestError, caught at line 154
    ELSE Resp(200, "ok", 1, 1, {e \in table : e.id # item_id})

\* delete_entry: every exception of its body, the one of auth included, is
\* replaced by a ServiceError
delete_entry(ev, item_id, table, kind) ==
    IF auth(ev.authorizer, TRUE).raised THEN Resp(500, kind, 0, 0, table)
    ELSE DeleteFor(auth(ev.authorizer, TRUE).user_id, item_id, table, kind)

\* app.resolve(event, context)
resolve(ev, route, item_id, table, kind) ==
    IF route = "get_app" THEN get_app(ev, table)
    ELSE IF route = "get_collection" THEN get_collection(ev, table)
    ELSE delete_entry(ev, item_id, table, kind)

\* an entry as the pipeline stores it
ApiEntry(id) ==
    LET q == IF id % 2 = 1 THEN <<"a">> ELSE <<"b">>
    IN  create_language_entry(q, parse_claude_response(<<"a", SP, PIPE, SP, "t">>),
                              <<[NewTask(q) EXCEPT !.st = "done", !.result = FileName(q)]>>, id)

\* an item with the user_id attribute that delete_entry compares (line 140):
\* no code of the repository writes it, the table is shared with other writers
OwnedEntry == ApiEntry(MaxEntries) @@ [user_id |-> Str(<<"7">>)]

\* the tables: at most one item per id
ApiStores ==
    {t \in SUBSET ({ApiEntry(id) : id \in 1..MaxEntries} \cup {OwnedEntry}) :
        \A e1, e2 \in t : e1.id = e2.id => e1 = e2}

\* a request arrives at the API function
ApiRequest ==
    /\ api.pc = "idle"
    /\ \E ev \in Events : event' = ev
    /\ \E route \in Routes : \E item_id \in 1..MaxEntries :
          api' = [ApiIdle EXCEPT !.pc = "received", !.route = route,
                                 !.item_id = IF route = "delete_entry" THEN item_id ELSE 0]
    /\ UNCHANGED <<TELEGRAM_TOKEN, tamper, mw, inv, store, users, blobs, nEvents, faults>>
    /\ UNCHANGED callVars

\* api.lambda_handler: session_middleware, then the resolver on the event it
\* returns
ApiHandle ==
    /\ api.pc = "received"
    /\ \E kind \in ServiceErrorKinds :
       \E m \in {session_middleware(event, TELEGRAM_TOKEN)} :
       \E r \in {resolve(m.event, api.route, api.item_id, store, kind)} :
          /\ event' = m.event
          /\ store' = r.table
          /\ api' = [api EXCEPT !.pc = "done", !.status = r.status, !.kind = r.kind,
                                !.reads = r.reads, !.writes = r.writes,
                                !.is_authenticated = m.response.is_authenticated,
                                !.user_id = m.response.user_id]
    /\ UNCHANGED <<TELEGRAM_TOKEN, tamper, mw, inv, users, blobs, nEvents, faults>>
    /\ UNCHANGED callVars

\* the response goes back to the caller
ApiRespond ==
    /\ api.pc = "done"
    /\ event' = NoEvent
    /\ api' = ApiIdle
    /\ UNCHANGED <<TELEGRAM_TOKEN, tamper, mw, inv, store, users, blobs, nEvents, faults>>
    /\ UNCHANGED callVars

ApiInit ==
    /\ inv = [i \in Workers |-> Idle]
    /\ store \in ApiStores
    /\ users = {}
    /\ blobs = {}
    /\ nEvents = 0
    /\ faults = 0
    /\ TELEGRAM_TOKEN \in Tokens
    /\ AuthIdle

ApiNext ==
    \/ ApiRequest
    \/ ApiHandle
    \/ ApiRespond

ApiSpec == ApiInit /\ [][ApiNext]_vars

\* ------------------------------------------- one line of a message, alone
MaxParseLines == 3   \* raw lines of the LLM response to one line

ParseRespLines == { <<"a", SP, PIPE, SP, "t">>, <<"x">>, <<"a", PIPE, "t", PIPE, "t">>,
                    <<>>, <<SP, "b", PIPE>>, <<SP>> }
ParseResponses == {Join(ls, NL) : ls \in SeqsUpTo(ParseRespLines, MaxParseLines)}

\* the tasks of the fan-out once each get_audio has returned
DoneTasks(query, content, audioOk) ==
    LET tasks == FanOut(query, ExampleTexts(content.example_pairs))
    IN  [k \in 1..Len(tasks) |->
            [tasks[k] EXCEPT !.st = "done", !.doneAt = k,
                             !.result = IF audioOk THEN FileName(tasks[k].text) ELSE None]]

\* lines 195-212 for one line: the body of the loop over the lines
LineCall ==
    /\ call.pc = "idle"
    /\ \E query \in Words : \E response \in ParseResponses : \E audioOk \in BOOLEAN :
       \E c \in {parse_claude_response(response)} :
          IF get_by_query(query) # {}
          THEN /\ call' = [pc |-> "done", op |-> "line", query |-> query, response |-> response,
                           before |-> store, content |-> ParseError, outcome |-> "skipped"]
               /\ UNCHANGED store
          ELSE IF ~c.ok
          THEN /\ call' = [pc |-> "done", op |-> "line", query |-> query, response |-> response,
                           before |-> store, content |-> c, outcome |-> "parse-error"]
               /\ UNCHANGED store
          ELSE /\ call' = [pc |-> "done", op |-> "line", query |-> query, response |-> response,
                           before |-> store, content |-> c, outcome |-> "saved"]
               /\ store' = PutEntry(store, create_language_entry(query, c,
                                              DoneTasks(query, c, audioOk), FreshId))
    /\ UNCHANGED <<inv, users, blobs, nEvents, faults>>
    /\ UNCHANGED authVars
    /\ UNCHANGED apiVars

\* the loop goes on
LineReturn ==
    /\ call.pc = "done"
    /\ call' = [call EXCEPT !.pc = "returned"]
    /\ UNCHANGED pipeVars
    /\ UNCHANGED authVars
    /\ UNCHANGED apiVars

LineNext ==
    \/ LineCall
    \/ LineReturn

\* the table is empty or holds the entry of the first word
LineInit ==
    /\ inv = [i \in Workers |-> Idle]
    /\ store \in {{}, {ApiEntry(1)}}
    /\ users = {}
    /\ blobs = {}
    /\ nEvents = 0
    /\ faults = 0
    /\ TELEGRAM_TOKEN = "T1"
    /\ AuthIdle

LineSpec == LineInit /\ [][LineNext]_vars

\* ------------------------------------------- core.py: LanguageEntry, alone
MaxExamples == 1   \* examples of one entry

\* values that "not x" takes for absent: None and the empty string
Falsy(x) == x \in {None, <<>>}

KeyError == <<"KeyError">>
\* data[k]
Subscript(d, k) == DictGet(d, k, KeyError)

\* Example.to_dict
ExampleToDict(ex) == << <<"de", ex.de>>, <<"ru", ex.ru>>, <<"audio_file", ex.audio_file>> >>

\* Example.from_dict
ExampleFromDict(data) ==
    [de |-> Subscript(data, "de"), ru |-> Subscript(data, "ru"),
     audio_file |-> DictGet(data, "audio_file", None)]

\* a __post_init__ that assigns id and created_at whatever was supplied
PostInitAlways(self, uuid, now) == [self EXCEPT !.id = uuid, !.created_at = now]

\* LanguageEntry.__post_init__, when uuid4 gives uuid and utcnow gives now
post_init(self, uuid, now) ==
    [self EXCEPT !.id = IF Falsy(@) THEN uuid ELSE @,
                 !.created_at = IF Falsy(@) THEN now ELSE @]

\* LanguageEntry(...): the dataclass __init__, then __post_init__
LanguageEntry(fields, uuid, now) == post_init(fields, uuid, now)

\* LanguageEntry.to_dict
to_dict(self) ==
    << <<"id", self.id>>,
       <<"query", self.query>>,
       <<"definition", self.definition>>,
       <<"translation", self.translation>>,
       <<"examples", [k \in 1..Len(self.examples) |-> ExampleToDict(self.examples[k])]>>,
       <<"audio_file", self.audio_file>>,
       <<"created_at", self.created_at>> >>

\* LanguageEntry.from_dict, when uuid4 would give uuid and utcnow would give now
from_dict(data, uuid, now) ==
    LanguageEntry([id |-> Subscript(data, "id"),
                   query |-> Subscript(data, "query"),
                   definition |-> Subscript(data, "definition"),
                   translation |-> Subscript(data, "translation"),
                   examples |-> [k \in 1..Len(Subscript(data, "examples")) |->
                                    ExampleFromDict(Subscript(data, "examples")[k])],
                   audio_file |-> DictGet(data, "audio_file", None),
                   created_at |-> Subscript(data, "created_at")],
                  uuid, now)

\* table.put_item(Item=item) on the table keyed by id
PutItem(table, item) ==
    {x \in table : Subscript(x, "id") # Subscript(item, "id")} \cup {item}

\* LanguageEntry.save
save(table, self) == PutItem(table, to_dict(self))

\* what the caller can supply for id and created_at, and what uuid4 and
\* utcnow give at the first and at a later call
SuppliedIds == {None, <<>>, <<"id1">>}
SuppliedTimes == {None, <<>>, <<"t0">>}
Uuids == <<<<"uuid1">>, <<"uuid2">>>>
Nows == <<<<"t1">>, <<"t2">>>>
EntryExamples ==
    {[de |-> d, ru |-> <<"t">>, audio_file |-> IF ok THEN FileName(d) ELSE None] :
        d \in Words, ok \in BOOLEAN}
EntryFields ==
    {[id |-> i, query |-> q, definition |-> q, translation |-> <<"t">>, examples |-> exs,
      audio_file |-> a, created_at |-> c] :
        i \in SuppliedIds, c \in SuppliedTimes, q \in Words, a \in {None, FileName(<<"a">>)},
        exs \in SeqsUpTo(EntryExamples, MaxExamples)}

\* an entry is constructed
EntryNew ==
    /\ call.pc = "idle"
    /\ \E fields \in EntryFields :
         call' = [pc |-> "made", op |-> "entry", supplied |-> fields,
                  self |-> LanguageEntry(fields, Uuids[1], Nows[1]),
                  made |-> LanguageEntry(fields, Uuids[1], Nows[1]),
                  data |-> <<>>, back |-> fields]
    /\ UNCHANGED pipeVars
    /\ UNCHANGED authVars
    /\ UNCHANGED apiVars

\* data = entry.to_dict(); LanguageEntry.from_dict(data), at a later time
EntryRoundTrip ==
    /\ call.pc = "made"
    /\ call' = [call EXCEPT !.pc = "back",
                            !.data = to_dict(call.self),
                            !.back = from_dict(to_dict(call.self), Uuids[2], Nows[2])]
    /\ UNCHANGED pipeVars
    /\ UNCHANGED authVars
    /\ UNCHANGED apiVars

\* entry.save()
EntrySave ==
    /\ call.pc \in {"made", "back"}
    /\ call' = [call EXCEPT !.pc = "saved"]
    /\ store' = save(store, call.self)
    /\ UNCHANGED <<inv, users, blobs, nEvents, faults>>
    /\ UNCHANGED authVars
    /\ UNCHANGED apiVars

EntryInit ==
    /\ inv = [i \in Workers |-> Idle]
    /\ store \in {{}, {to_dict(LanguageEntry(f, <<"id1">>, <<"t0">>)) :
                          f \in {g \in EntryFields : g.id = None /\ g.created_at = None
                                                      /\ g.examples = <<>> /\ g.audio_file = None
                                                      /\ g.query = <<"a">>}}}
    /\ users = {}
    /\ blobs = {}
    /\ nEvents = 0
    /\ faults = 0
    /\ TELEGRAM_TOKEN = "T1"
    /\ AuthIdle

EntryNext ==
    \/ EntryNew
    \/ EntryRoundTrip
    \/ EntrySave

EntrySpec == EntryInit /\ [][EntryNext]_vars

\* ------------------------------------------------ bot.py: the update handler
\* The webhook function: one Telegram update per invocation.  The users table
\* is the `users` variable, the collection the `store` variable; `call` holds
\* the invocation and what it did.

RECURSIVE SplitWhitespaceAcc(_, _)
SplitWhitespaceAcc(s, cur) ==
    IF s = <<>> THEN (IF cur = <<>> THEN <<>> ELSE <<cur>>)
    ELSE IF Head(s) \in {SP, NL}
         THEN (IF cur = <<>> THEN <<>> ELSE <<cur>>) \o SplitWhitespaceAcc(Tail(s), <<>>)
         ELSE SplitWhitespaceAcc(Tail(s), Append(cur, Head(s)))

\* str.split() without a separator: runs of whitespace separate, no empty parts
SplitWhitespace(s) == SplitWhitespaceAcc(s, <<>>)

\* str.upper() on the characters of the model's alphabet
UpperChar(c) ==
    CASE c = "a" -> "A" [] c = "b" -> "B" [] c = "c" -> "C" [] c = "x" -> "X" [] OTHER -> c

Upper(s) == [k \in 1..Len(s) |-> UpperChar(s[k])]

\* LanguageLevel(value): the member with that value, ValueError if there is none
LevelValue(s) == IF Len(s) = 2 THEN s[1] \o s[2] ELSE "-"

\* LanguageLevel.from_string
from_string(level_str) ==
    LET value == LevelValue(Upper(level_str))
    IN  IF value \in Levels THEN [ok |-> TRUE, level |-> value]
        ELSE [ok |-> FALSE, level |-> "-"]

\* extract_command_args
extract_command_args(text) ==
    LET parts == SplitWhitespace(text)
    IN  IF Len(parts) > 1 THEN Tail(parts) ELSE <<>>

\* what one invocation has done so far: the queue sends attempted, the
\* replies attempted, whether an exception is in flight, the users table
Begun(table) == [sends |-> <<>>, replies |-> <<>>, exc |-> FALSE, table |-> table]

\* update.message.reply_text / reply_document: the attempts listed in
\* `lost` raise
Reply(h, key, lost) ==
    [h EXCEPT !.replies = Append(@, key), !.exc = (Len(h.replies) + 1) \in lost]

\* help_command
help_command(h, lost) == Reply(h, "help_text", lost)

\* export_command: the reply inside the try, deck_error after an exception
export_command(h, entries, lost) ==
    LET tried == IF entries = {} THEN Reply(h, "empty_collection", lost)
                 ELSE Reply(h, "deck_ready", lost)
    IN  IF tried.exc THEN Reply([tried EXCEPT !.exc = FALSE], "deck_error", lost) ELSE tried

\* list_command
list_command(h, entries, lost) ==
    LET tried == IF entries = {} THEN Reply(h, "empty_collection", lost)
                 ELSE Reply(h, "collection_title", lost)
    IN  IF tried.exc THEN Reply([tried EXCEPT !.exc = FALSE], "collection_error", lost)
        ELSE tried

\* a handle_message that sends once more after a failed send
HandleMessageRetries(h, text, sendOk, lost) ==
    LET sent == [h EXCEPT !.sends = IF sendOk THEN Append(@, [text |-> text, ok |-> TRUE])
                                   ELSE @ \o <<[text |-> text, ok |-> FALSE],
                                               [text |-> text, ok |-> FALSE]>>,
                          !.exc = ~sendOk]
        tried == IF sent.exc THEN sent ELSE Reply(sent, "message_queued", lost)
    IN  IF tried.exc THEN Reply([tried EXCEPT !.exc = FALSE], "message_error", lost)
        ELSE tried

\* handle_message: one sqs.send_message, then the reply; any exception of
\* the two is answered with message_error
handle_message(h, text, sendOk, lost) ==
    LET sent == [h EXCEPT !.sends = Append(@, [text |-> text, ok |-> sendOk]),
                          !.exc = ~sendOk]
        tried == IF sent.exc THEN sent ELSE Reply(sent, "message_queued", lost)
    IN  IF tried.exc THEN Reply([tried EXCEPT !.exc = FALSE], "message_error", lost)
        ELSE tried

\* a level_command that saves a fresh User with the new level
LevelCommandFromDefaults(h, uid, args, lost) ==
    LET got == get_user(h.table, uid)
        h1 == [h EXCEPT !.table = got.table]
    IN  IF args = <<>> THEN Reply(h1, "level_current", lost)
        ELSE LET level_enum == from_string(Upper(args[1]))
             IN  IF level_enum.ok
                 THEN Reply([h1 EXCEPT !.table =
                                PutUser(@, [NewUser(uid) EXCEPT !.level = level_enum.level])],
                            "level_updated", lost)
                 ELSE Reply(h1, "level_invalid", lost)

\* level_command
level_command(h, uid, args, lost) ==
    LET got == get_user(h.table, uid)
        h1 == [h EXCEPT !.table = got.table]
    IN  IF args = <<>> THEN Reply(h1, "level_current", lost)
        ELSE LET level_enum == from_string(Upper(args[1]))
             IN  IF level_enum.ok
                 THEN Reply([h1 EXCEPT !.table =
                                PutUser(@, [got.user EXCEPT !.level = level_enum.level])],
                            "level_updated", lost)
                 ELSE Reply(h1, "level_invalid", lost)

\* context_command
context_command(h, uid, args, lost) ==
    LET got == get_user(h.table, uid)
        h1 == [h EXCEPT !.table = got.table]
    IN  IF args = <<>> THEN Reply(h1, "context_current", lost)
        ELSE Reply([h1 EXCEPT !.table =
                       PutUser(@, [got.user EXCEPT !.context = Join(args, SP)])],
                   "context_updated", lost)

Slash == <<"/">>
CmdHelp == <<"/", "h", "e", "l", "p">>
CmdExport == <<"/", "e", "x", "p", "o", "r", "t">>
CmdList == <<"/", "l", "i", "s", "t">>
CmdLevel == <<"/", "l", "e", "v", "e", "l">>
CmdContext == <<"/", "c", "o", "n", "t", "e", "x", "t">>

\* the response of the handler
Response(h, status, body) ==
    [status |-> status, body |-> body, sends |-> h.sends, replies |-> h.replies,
     table |-> h.table]

\* the routing of lambda_handler for a message with text
Route(h, uid, text, entries, sendOk, lost) ==
    IF StartsWith(text, Slash)
    THEN IF StartsWith(text, CmdHelp) THEN help_command(h, lost)
         ELSE IF StartsWith(text, CmdExport) THEN export_command(h, entries, lost)
         ELSE IF StartsWith(text, CmdList) THEN list_command(h, entries, lost)
         ELSE IF StartsWith(text, CmdLevel)
              THEN level_command(h, uid, extract_command_args(text), lost)
         ELSE IF StartsWith(text, CmdContext)
              THEN context_command(h, uid, extract_command_args(text), lost)
         ELSE Reply(h, "unknown_command", lost)
    ELSE handle_message(h, text, sendOk, lost)

KnownCommand(text) ==
    \E c \in {CmdHelp, CmdExport, CmdList, CmdLevel, CmdContext} : StartsWith(text, c)

\* bot.lambda_handler: 400 for a body without a message, 500 after any
\* exception (a message without text raises at text.startswith)
bot_lambda_handler(body, table, entries, sendOk, lost) ==
    IF ~body.message THEN Response(Begun(table), 400, "Invalid update format")
    ELSE IF body.text = None THEN Response(Begun(table), 500, "error")
    ELSE LET h == Route(Begun(table), body.user_id, body.text, entries, sendOk, lost)
         IN  IF h.exc THEN Response(h, 500, "error")
             ELSE IF StartsWith(body.text, Slash) /\ ~KnownCommand(body.text)
                  THEN Response(h, 200, "Unknown command")
                  ELSE Response(h, 200, "OK")

BotUserIds == {"u1", "u2"}

\* what users type after /level: a level in either case, something that is
\* no level, a second word
LevelArguments == {<<"b", "2">>, <<"B", "2">>, <<"x", "9">>, <<"b", "2", SP, "x", "9">>}

\* what users type after /context: one word, two words with several blanks
ContextArguments == {<<"c">>, <<SP, "c", SP, SP, "x", "9">>}

\* message texts: plain words, the commands alone, with a trailing blank,
\* with a suffix to the command name, with arguments, and no text at all
Texts ==
    {None, <<"a">>, <<"h", "i">>, <<SP>> \o CmdLevel, Slash, <<"/", "x">>, CmdHelp, CmdExport,
     CmdList}
    \cup {c \o tail : c \in {CmdLevel, CmdContext}, tail \in {<<>>, <<SP>>, <<"s">>}}
    \cup {CmdLevel \o <<SP>> \o a : a \in LevelArguments}
    \cup {CmdContext \o <<SP>> \o a : a \in ContextArguments}

Bodies ==
    {[message |-> TRUE, user_id |-> uid, text |-> text] : uid \in BotUserIds, text \in Texts}
    \cup {[message |-> FALSE, user_id |-> "-", text |-> None]}

\* one invocation of bot.lambda_handler
BotUpdate ==
    /\ call.pc = "idle"
    /\ \E body \in Bodies, sendOk \in BOOLEAN, lost \in SUBSET {1, 2} :
          LET r == bot_lambda_handler(body, users, store, sendOk, lost)
          IN  /\ call' = [pc |-> "done", op |-> "update", body |-> body, sendOk |-> sendOk,
                          lost |-> lost, response |-> r]
              /\ users' = r.table
    /\ UNCHANGED <<inv, store, blobs, nEvents, faults>>
    /\ UNCHANGED authVars
    /\ UNCHANGED apiVars

\* User.get_user called on its own
GetUserCall ==
    /\ call.pc = "idle"
    /\ \E uid \in BotUserIds :
          LET got == get_user(users, uid)
          IN  /\ call' = [pc |-> "done", op |-> "get_user", user_id |-> uid, user |-> got.user]
              /\ users' = got.table
    /\ UNCHANGED <<inv, store, blobs, nEvents, faults>>
    /\ UNCHANGED authVars
    /\ UNCHANGED apiVars

SavedContexts == {<<>>, <<"c">>}

\* User.save of a User object with any level and context
SaveCall ==
    /\ call.pc = "idle"
    /\ \E uid \in BotUserIds, level \in Levels, context \in SavedContexts :
          LET user == [NewUser(uid) EXCEPT !.level = level, !.context = context]
          IN  /\ call' = [pc |-> "done", op |-> "save", user_id |-> uid, user |-> user]
              /\ users' = PutUser(users, user)
    /\ UNCHANGED <<inv, store, blobs, nEvents, faults>>
    /\ UNCHANGED authVars
    /\ UNCHANGED apiVars

\* the caller takes the result
BotReturn ==
    /\ call.pc = "done"
    /\ call' = NoCall
    /\ UNCHANGED pipeVars
    /\ UNCHANGED authVars
    /\ UNCHANGED apiVars

BotInit ==
    /\ inv = [i \in Workers |-> Idle]
    /\ store \in {{}, {EarlierEntry}}
    /\ users = {}
    /\ blobs = {}
    /\ nEvents = 0
    /\ faults = 0
    /\ TELEGRAM_TOKEN = "T1"
    /\ AuthIdle

BotNext ==
    \/ BotUpdate
    \/ GetUserCall
    \/ SaveCall
    \/ BotReturn

BotSpec == BotInit /\ [][BotNext]_vars

\* ------------------------------------------------------------------ claims
Failures == {"store-error", "llm-error", "parse-error"}
EntriesFor(q) == {e \in store : e.query = q}

\* C1: a query text submitted twice (two lines, two records or two events
\* handled one after the other) is stored exactly once: no two stored entries
\* have the same query, and every line that was processed without a failure
\* has exactly one entry.
C1_SameQueryStoredOnce ==
    /\ \A e1 \in store : \A e2 \in store : e1.query = e2.query => e1 = e2
    /\ \A i \in Workers : \A k \in 1..Len(inv[i].outcomes) :
         inv[i].outcomes[k] \notin Failures
            => Cardinality(EntriesFor(inv[i].lines[k])) = 1

\* the second event carries the query of the first twice; both lines are skipped
C1_Witness ==
    \E i \in Workers :
        /\ nEvents = 2
        /\ faults = 0
        /\ Len(inv[i].outcomes) >= 2
        /\ inv[i].lines[1] = inv[i].lines[2]
        /\ inv[i].outcomes[1] = "skipped"
        /\ inv[i].outcomes[2] = "skipped"
        /\ Cardinality(EntriesFor(inv[i].lines[1])) = 1

\* C2: a line that fails does not stop the lines after it: every line before
\* the current one has an outcome, at the end of the loop every line has one,
\* and every line that did not fail has an entry in the store.
C2_LineFailuresIsolated ==
    \A i \in Workers :
        LET h == inv[i]
        IN  /\ h.pc \in {"line", "generate", "fanout", "save"} => Len(h.outcomes) = h.ln - 1
            /\ h.pc = "endlines" => Len(h.outcomes) = Len(h.lines)
            /\ \A k \in 1..Len(h.outcomes) :
                 h.outcomes[k] \notin Failures => EntriesFor(h.lines[k]) # {}

\* three lines, the second fails to parse, the first and the third are saved
C2_Witness ==
    \E i \in Workers :
        /\ inv[i].pc = "endlines"
        /\ inv[i].outcomes = <<"saved", "parse-error", "saved">>
        /\ EntriesFor(inv[i].lines[1]) # {}
        /\ EntriesFor(inv[i].lines[3]) # {}

\* C3: a store call that fails aborts the current item only: an invocation in
\* which a store call failed still goes through every record of its event.
C3_StoreFailureAbortsItemOnly ==
    \A i \in Workers :
        (inv[i].pc = "idle" /\ inv[i].status # 0 /\ inv[i].storeFailed)
            => inv[i].rec = inv[i].nrec /\ inv[i].status = 200

\* C4: the entry gets the query's result first and the examples' results in
\* example order: example k carries the result of the task that synthesized
\* its own text, whatever the order in which the tasks finished.
C4_FanOutOrder ==
    /\ \A i \in Workers :
         LET h == inv[i]
         IN  h.pc = "save" =>
               /\ Len(h.tasks) = Len(h.entry.examples) + 1
               /\ h.tasks[1].text = h.entry.query
               /\ h.entry.audio_file = h.tasks[1].result
               /\ h.entry.audio_file \in {None, FileName(h.entry.query)}
               /\ \A k \in 1..Len(h.entry.examples) :
                    /\ h.tasks[k + 1].text = h.entry.examples[k].de
                    /\ h.entry.examples[k].audio_file = h.tasks[k + 1].result
    /\ \A e \in store :
         /\ e.audio_file \in {None, FileName(e.query)}
         /\ \A k \in 1..Len(e.examples) :
              e.examples[k].audio_file \in {None, FileName(e.examples[k].de)}

\* the example's task finished before the query's, with different filenames
C4_Witness ==
    \E i \in Workers :
        /\ inv[i].pc = "save"
        /\ Len(inv[i].tasks) >= 2
        /\ inv[i].tasks[2].doneAt < inv[i].tasks[1].doneAt
        /\ inv[i].tasks[1].result = FileName(inv[i].tasks[1].text)
        /\ inv[i].tasks[2].result = FileName(inv[i].tasks[2].text)
        /\ inv[i].tasks[1].text # inv[i].tasks[2].text

\* C5: two get_audio calls with the same text submit one synthesis job, also
\* when they are tasks of the same fan-out: no two tasks with the same text
\* have both submitted a job, unless one of them ended without a result.
C5_OneJobPerText ==
    \A i \in Workers : \A k1 \in 1..Len(inv[i].tasks) : \A k2 \in 1..Len(inv[i].tasks) :
        (k1 # k2 /\ inv[i].tasks[k1].text = inv[i].tasks[k2].text
                 /\ inv[i].tasks[k1].job # 0 /\ inv[i].tasks[k2].job # 0)
            => \E k \in {k1, k2} : inv[i].tasks[k].st = "done" /\ inv[i].tasks[k].result = None

\* ---- authentication layer
\* the initData the validator was given in this request
GivenInitData == ExtractInitData(AuthHeader(mw.before))
Parsed(s) == ParseParams(Split(s, AMP), <<>>)
\* the hash field as parsed, and the string the HMAC is taken of
ReceivedHash(s) == DictGet(Parsed(s), HASH, None)
DataCheck(s) == DataCheckString(DictPop(Parsed(s), HASH))
\* token configured, hash present and non-empty, HMAC equal to the hash
HashMatches(s, token) ==
    /\ token # ""
    /\ ReceivedHash(s) \notin {None, <<>>}
    /\ CalculatedHash(token, DataCheck(s)) = ReceivedHash(s)
AttachedAuth(key, default) == DictGet(event.authorizer, key, default)

\* C6: the validator reports valid if and only if the token is configured,
\* the parsed initData has a non-empty hash, and the hex HMAC of the sorted,
\* newline-joined decoded pairs equals that hash.
C6_ValidIffHashMatches ==
    (mw.pc = "done" /\ mw.nValidate = 1)
        => (mw.vres.is_valid <=> HashMatches(GivenInitData, TELEGRAM_TOKEN))

\* C7: after any single-character change of an initData that the validator
\* accepts, the validator rejects it.
C7_AnyChangeInvalidates ==
    (mw.pc = "done" /\ tamper.done /\ tamper.res.is_valid) => ~mw.vres.is_valid

\* C8: the validator never raises, and with no token configured or with a
\* user field that is not valid JSON its result is not authenticated: is_valid
\* false and no user payload.
C8_FailuresNotAuthenticated ==
    (mw.pc = "done" /\ mw.nValidate = 1)
        => /\ ~mw.vres.raised
           /\ (\/ TELEGRAM_TOKEN = ""
               \/ /\ DictHas(Parsed(GivenInitData), USER)
                  /\ ~JsonLoads(DictGet(Parsed(GivenInitData), USER, <<>>)).ok)
                => (~mw.vres.is_valid /\ mw.vres.user_data = None)

\* the values of the request's Authorization headers that start with "Telegram "
TelegramHeaders(ev) ==
    IF ev.headersNull THEN {}
    ELSE {ev.headers[i][2] : i \in {j \in 1..Len(ev.headers) :
              /\ ev.headers[j][1] \in {"Authorization", "authorization"}
              /\ StartsWith(ev.headers[j][2], TelegramPrefix)}}

\* C9: what the middleware attaches reflects this request's validation only:
\* is_authenticated is true only if the request carried an Authorization
\* header with prefix "Telegram " whose initData validates; user_data and
\* user_id are set only if is_authenticated is; and the three keys hold this
\* request's result whatever the authorizer context held before.
C9_AuthReflectsOwnValidation ==
    mw.pc = "done" =>
        /\ \A k \in {"is_authenticated", "user_data", "user_id"} : DictHas(event.authorizer, k)
        /\ AttachedAuth("is_authenticated", FALSE) =>
             \E h \in TelegramHeaders(mw.before) :
                validate_tg_init_data(SubSeq(h, Len(TelegramPrefix) + 1, Len(h)), TELEGRAM_TOKEN).is_valid
        /\ (AttachedAuth("user_data", None) # None \/ AttachedAuth("user_id", None) # None)
             => AttachedAuth("is_authenticated", FALSE)
        /\ AttachedAuth("is_authenticated", FALSE) = (mw.nValidate = 1 /\ mw.vres.is_valid)
        /\ AttachedAuth("user_data", None) = mw.vres.user_data

\* the authorizer context said authenticated, the request carried no valid
\* initData: the three keys now say not authenticated
C9_Witness ==
    /\ mw.pc = "done"
    /\ mw.before.hasAuthorizer
    /\ DictGet(mw.before.authorizer, "is_authenticated", FALSE)
    /\ DictGet(mw.before.authorizer, "user_id", None) # None
    /\ ~AttachedAuth("is_authenticated", TRUE)
    /\ AttachedAuth("user_id", <<>>) = None
    /\ AttachedAuth("user_data", <<>>) = None

\* C10: with no Authorization header, or one that does not start with
\* "Telegram ", or one that carries an empty initData, the middleware does not
\* call the validator, attaches is_authenticated false with user_id and
\* user_data None, and calls the handler exactly once, returning its result.
C10_NoInitDataStillHandled ==
    (mw.pc = "done" /\ \A h \in TelegramHeaders(mw.before) : h = TelegramPrefix)
        => /\ mw.nValidate = 0
           /\ AttachedAuth("is_authenticated", TRUE) = FALSE
           /\ AttachedAuth("user_id", <<>>) = None
           /\ AttachedAuth("user_data", <<>>) = None
           /\ mw.nHandler = 1
           /\ mw.response = handler(event)

\* a header with another scheme in front of a signed initData
C10_Witness ==
    /\ mw.pc = "done"
    /\ ~mw.before.headersNull
    /\ Len(mw.before.headers) = 1
    /\ ~StartsWith(mw.before.headers[1][2], TelegramPrefix)
    /\ HashMatches(SubSeq(mw.before.headers[1][2], Len(TelegramPrefix) + 1,
                          Len(mw.before.headers[1][2])), TELEGRAM_TOKEN)
    /\ mw.nValidate = 0
    /\ mw.nHandler = 1
    /\ ~mw.response.is_authenticated

\* ---- API handlers
\* C11: a handler that requires authentication (collection listing, entry
\* deletion) answers a request whose is_authenticated is false or whose
\* user_id is absent with the authentication-required error (the
\* BadRequestError of auth, status 400) and makes no store read or write.
C11_AuthRequiredRejected ==
    (/\ api.pc = "done"
     /\ api.route \in {"get_collection", "delete_entry"}
     /\ (~api.is_authenticated \/ api.user_id = None))
        => /\ api.kind = "BadRequestError"
           /\ api.status = 400
           /\ api.reads = 0
           /\ api.writes = 0

\* ---- the parser and one line of a message
PipeCount(line) == Cardinality({i \in 1..Len(line) : line[i] = PIPE})
PipeAt(line) == CHOOSE i \in 1..Len(line) : line[i] = PIPE
BeforePipe(line) == Strip(SubSeq(line, 1, PipeAt(line) - 1))
AfterPipe(line) == Strip(SubSeq(line, PipeAt(line) + 1, Len(line)))
\* the non-blank lines of the response given in the call
CallLines == CleanLines(call.response)
LineCalled == call.pc \in {"done", "returned"} /\ call.op = "line" /\ call.outcome # "skipped"
FirstLineWellFormed == CallLines # <<>> /\ PipeCount(CallLines[1]) = 1
LaterLinesWellFormed == \A k \in 2..Len(CallLines) : PipeCount(CallLines[k]) <= 1

RECURSIVE ExpectedPairs(_)
\* one pair per line that has a '|', in line order
ExpectedPairs(lines) ==
    IF lines = <<>> THEN <<>>
    ELSE IF PipeCount(Head(lines)) = 0 THEN ExpectedPairs(Tail(lines))
    ELSE <<[de |-> BeforePipe(Head(lines)), ru |-> AfterPipe(Head(lines))]>>
         \o ExpectedPairs(Tail(lines))

\* C12: the parse fails exactly when the first non-blank line does
\* not have exactly one '|' (or there is no such line), otherwise definition
\* and translation are the stripped texts around it; a failure stores nothing.
C12_FirstLineDecides ==
    LineCalled =>
        IF FirstLineWellFormed
        THEN /\ call.content.ok
             /\ call.content.definition = BeforePipe(CallLines[1])
             /\ call.content.translation = AfterPipe(CallLines[1])
        ELSE /\ ~call.content.ok
             /\ call.outcome = "parse-error"
             /\ store = call.before

\* What the parser does: the parse fails when the first non-blank line does not
\* have exactly one '|' (or there is no such line) and also when a later line has more
\* than one; otherwise definition and translation are the stripped texts
\* around the first line's '|'; a failure reaches lambda_handler and stores
\* nothing.
FirstOrLaterLineDecides ==
    LineCalled =>
        IF FirstLineWellFormed /\ LaterLinesWellFormed
        THEN /\ call.content.ok
             /\ call.content.definition = BeforePipe(CallLines[1])
             /\ call.content.translation = AfterPipe(CallLines[1])
             /\ call.outcome = "saved"
        ELSE /\ ~call.content.ok
             /\ call.outcome = "parse-error"
             /\ store = call.before

\* a response whose first line has no '|': the line fails, nothing is stored
FirstLineFails ==
    /\ LineCalled
    /\ CallLines # <<>>
    /\ PipeCount(CallLines[1]) = 0
    /\ call.outcome = "parse-error"
    /\ store = {}

\* C13: after a well-formed first line the parse succeeds and gives
\* one pair per later line that has a '|'.
C13_PairPerPipeLine ==
    (LineCalled /\ FirstLineWellFormed)
        => /\ call.content.ok
           /\ Len(call.content.example_pairs)
                = Cardinality({k \in 2..Len(CallLines) : PipeCount(CallLines[k]) > 0})

\* What the parser does: after a well-formed first line, if no later line has more than one
\* '|', the pairs are those of the later lines that have one, in line order,
\* and the lines without '|' are dropped; a later line with more than one '|'
\* makes the parse fail.
PairPerSinglePipeLine ==
    (LineCalled /\ FirstLineWellFormed)
        => IF LaterLinesWellFormed
           THEN /\ call.content.ok
                /\ call.content.example_pairs = ExpectedPairs(Tail(CallLines))
           ELSE ~call.content.ok

\* a line without '|' between the first line and an example line
LineWithoutPipeDropped ==
    /\ LineCalled
    /\ call.content.ok
    /\ Len(CallLines) = 3
    /\ PipeCount(CallLines[2]) = 0
    /\ PipeCount(CallLines[3]) = 1
    /\ Len(call.content.example_pairs) = 1

C19_ReturnedFileExists ==
    \A i \in Workers : \A k \in 1..Len(inv[i].tasks) :
        (inv[i].tasks[k].st = "done" /\ inv[i].tasks[k].result # None)
          => /\ inv[i].tasks[k].result = FileName(inv[i].tasks[k].text)
             /\ S3Key(inv[i].tasks[k].result) \in blobs
             /\ inv[i].tasks[k].job # 0 => PollyKey(inv[i].tasks[k].job) \notin blobs

\* one task returned the name of an object it found, another the name of
\* the object it synthesised
C19_Witness ==
    \E i \in Workers : \E k, m \in 1..Len(inv[i].tasks) :
        /\ inv[i].tasks[k].st = "done"
        /\ inv[i].tasks[k].job # 0
        /\ inv[i].tasks[k].result = FileName(inv[i].tasks[k].text)
        /\ inv[i].tasks[m].st = "done"
        /\ inv[i].tasks[m].job = 0
        /\ inv[i].tasks[m].result = FileName(inv[i].tasks[m].text)

\* C15: synthesis failure is not fatal for the entry: once every get_audio
\* call of a line has returned, the entry is assembled with, for the query
\* and for each example, the audio_file that the call for that text returned
\* (None where it failed, the filename otherwise), and unless the store fails
\* the entry is saved as assembled.
C15_EntryKeepsWhatAudioReturned ==
    [][\A i \in Workers :
         /\ (inv[i].pc = "fanout" /\ AllDone(inv[i]) /\ inv'[i] # inv[i])
               => /\ inv'[i].pc = "save"
                  /\ inv'[i].outcomes = inv[i].outcomes
                  /\ inv'[i].entry.query = Line(inv[i])
                  /\ inv'[i].entry.audio_file = inv[i].tasks[1].result
                  /\ Len(inv'[i].entry.examples) = Len(inv[i].tasks) - 1
                  /\ \A k \in 1..Len(inv'[i].entry.examples) :
                        /\ inv'[i].entry.examples[k].de = inv[i].tasks[k + 1].text
                        /\ inv'[i].entry.examples[k].audio_file = inv[i].tasks[k + 1].result
         /\ (inv[i].pc = "save" /\ faults' = faults /\ inv'[i] # inv[i])
               => /\ inv[i].entry \in store'
                  /\ inv'[i].outcomes = Append(inv[i].outcomes, "saved")]_vars

\* a stored entry whose query has no audio while one of its examples has
C15_Witness ==
    \E e \in store :
        /\ e.audio_file = None
        /\ \E k \in 1..Len(e.examples) : e.examples[k].audio_file = FileName(e.examples[k].de)

\* C16: the dedup skip has no effect: when the store holds an entry with the
\* line's text as its query and the lookup itself does not fail, the step
\* that handles the line ends it with the outcome "skipped", with no content
\* generated, no get_audio task made and no entry built, and leaves the
\* store, the users and the bucket as they were.
C16_SkipHasNoEffect ==
    [][\A i \in Workers :
         (/\ inv[i].pc = "line"
          /\ \E e \in store : e.query = inv[i].lines[inv[i].ln]
          /\ faults' = faults
          /\ inv'[i] # inv[i])
           => /\ inv'[i].outcomes = Append(inv[i].outcomes, "skipped")
              /\ inv'[i].pc \in {"line", "endlines"}
              /\ inv'[i].content = ParseError
              /\ inv'[i].tasks = <<>>
              /\ inv'[i].entry = NoEntry
              /\ inv'[i].storeFailed = inv[i].storeFailed
              /\ store' = store
              /\ users' = users
              /\ blobs' = blobs]_vars

\* a line has been skipped and the entry stored for its text is still alone
C16_Witness ==
    \E i \in Workers :
        /\ inv[i].outcomes # <<>>
        /\ inv[i].outcomes[Len(inv[i].outcomes)] = "skipped"
        /\ Cardinality({e \in store : e.query = inv[i].lines[Len(inv[i].outcomes)]}) = 1

\* C17: personalization: the level and context passed to
\* get_examples_from_claude for a line are, when the message carries a
\* user_id, those stored for that user, and otherwise "B1" and the empty
\* context.
C17_AskedWithUsersLevel ==
    \A i \in Workers :
        inv[i].asked # NoAsk
          => /\ \E n \in 1..Len(inv[i].lines) : inv[i].lines[n] = inv[i].asked.query
             /\ IF inv[i].user_id = "-"
                THEN inv[i].asked.level = "B1" /\ inv[i].asked.context = <<>>
                ELSE \E u \in users :
                       /\ u.user_id = inv[i].user_id
                       /\ inv[i].asked.level = u.level
                       /\ inv[i].asked.context = u.context

\* the second line of a message of a user whose stored level is B2 and whose
\* context is not empty has been sent to the generator
C17_Witness ==
    \E i \in Workers :
        /\ inv[i].user_id = "u1"
        /\ Len(inv[i].outcomes) = 1
        /\ inv[i].pc = "fanout"
        /\ inv[i].asked = [query |-> inv[i].lines[2], level |-> "B2", context |-> <<"c">>]

\* ---- two invocations at once
PastLookup(i) == inv[i].pc \in {"generate", "fanout", "save"}
\* invocation i has saved an entry for the text q, or has returned (its
\* locals are gone then)
SavedOrReturned(i, q) ==
    \/ inv[i].pc = "endlines" /\ inv[i].outcomes = <<"saved">> /\ inv[i].lines = <<q>>
    \/ inv[i].pc = "idle" /\ inv[i].status = 200

\* C18: the lookup and the insert are not atomic: an invocation that has
\* passed the dedup lookup for its line can find an entry for that text in
\* the store only because the other invocation saved it after that lookup
\* (it has saved for the same text, or has returned); two stored entries
\* with the same query have different ids and are there only once both
\* invocations have saved for that text or returned.
C18_DuplicateOnlyByRace ==
    /\ \A i \in Workers :
         (PastLookup(i) /\ \E e \in store : e.query = Line(inv[i]))
           => \E j \in Workers \ {i} : SavedOrReturned(j, Line(inv[i]))
    /\ \A e1, e2 \in store :
         (e1 # e2 /\ e1.query = e2.query)
           => /\ e1.id # e2.id
              /\ \A i \in Workers : SavedOrReturned(i, e1.query)

\* both invocations were given the same text, both saved, and the store
\* holds two entries with that query and different ids
C18_Witness ==
    /\ \A i \in Workers :
         inv[i].pc = "endlines" /\ inv[i].outcomes = <<"saved">> /\ inv[i].lines = inv[1].lines
    /\ \E e1, e2 \in store :
         /\ e1.id # e2.id
         /\ e1.query = e2.query
         /\ <<e1.query>> = inv[1].lines

\* ---- LanguageEntry
\* C20: id and created_at are assigned once, at construction, when they are
\* not supplied (None or empty), and kept as supplied otherwise; they are the
\* same afterwards: to_dict followed by from_dict, at whatever later time,
\* gives an entry equal to the original in every field, the entry itself is
\* untouched by to_dict and save, and save puts exactly to_dict of the entry
\* in the table, under the entry's id.
C20_IdAndCreatedAtAssignedOnce ==
    call.op = "entry"
      => /\ call.made.id = IF call.supplied.id \in {None, <<>>} THEN Uuids[1] ELSE call.supplied.id
         /\ call.made.created_at
              = IF call.supplied.created_at \in {None, <<>>} THEN Nows[1] ELSE call.supplied.created_at
         /\ \A f \in {"query", "definition", "translation", "examples", "audio_file"} :
              call.made[f] = call.supplied[f]
         /\ call.self = call.made
         /\ call.pc = "back"
              => /\ call.back = call.made
                 /\ \A f \in DOMAIN call.made : call.back[f] = call.made[f]
                 /\ Len(call.data) = 7
                 /\ \A f \in {"id", "query", "definition", "translation", "audio_file",
                              "created_at"} : DictGet(call.data, f, <<"absent">>) = call.made[f]
         /\ call.pc = "saved"
              => /\ to_dict(call.made) \in store
                 /\ \A x \in store : DictGet(x, "id", <<"absent">>) = call.made.id
                                       => x = to_dict(call.made)

\* an entry built without id and created_at went through to_dict and
\* from_dict at a later time and was saved over an item with another id
C20_Witness ==
    /\ call.op = "entry"
    /\ call.pc = "saved"
    /\ call.supplied.id = None
    /\ call.supplied.created_at = None
    /\ call.supplied.examples # <<>>
    /\ call.data # <<>>
    /\ call.back.id = Uuids[1]
    /\ call.back.created_at = Nows[1]
    /\ Cardinality(store) = 2

\* ---- the fan-out of one line
\* C23: structured fan-in: an entry is being built or saved only when every
\* get_audio task of its line has returned (a filename or None), and the
\* store changes only by the save of such an entry.
C23_EntryAfterEveryTask ==
    [][\A i \in Workers :
         /\ inv'[i].entry # NoEntry
               => /\ inv'[i].pc = "save"
                  /\ Len(inv'[i].tasks) = Len(inv'[i].entry.examples) + 1
                  /\ \A k \in 1..Len(inv'[i].tasks) :
                        /\ inv'[i].tasks[k].st = "done"
                        /\ inv'[i].tasks[k].result \in {None, FileName(inv'[i].tasks[k].text)}
         /\ (inv'[i] # inv[i] /\ store' # store)
               => /\ inv[i].pc = "save"
                  /\ \A k \in 1..Len(inv[i].tasks) : inv[i].tasks[k].st = "done"
                  /\ store' = store \cup {inv[i].entry}]_vars

\* an entry is about to be saved whose query audio returned after the audio
\* of its example
C23_Witness ==
    \E i \in Workers :
        /\ inv[i].pc = "save"
        /\ Len(inv[i].tasks) = 2
        /\ inv[i].tasks[1].doneAt > inv[i].tasks[2].doneAt

\* C24: the texts of one entry are synthesised concurrently: get_audio tasks
\* start in task order, a task whose job is still in progress does not keep
\* the later ones from starting, and a sleeping task is polled again only
\* when every task of the fan-out has started (submitted its job or
\* returned).
C24_AllSubmittedBeforeSecondPoll ==
    [][\A i \in Workers : \A k \in 1..Len(inv[i].tasks) :
         /\ (inv[i].tasks[k].st = "new" /\ inv'[i].tasks # <<>>)
               => \A m \in k..Len(inv[i].tasks) : inv[i].tasks[m].st = "new"
         /\ (/\ inv[i].tasks[k].st = "sleeping"
             /\ Len(inv'[i].tasks) = Len(inv[i].tasks)
             /\ inv'[i].tasks[k] # inv[i].tasks[k])
               => \A m \in 1..Len(inv[i].tasks) :
                    /\ inv[i].tasks[m].st # "new"
                    /\ inv[i].tasks[m].st = "sleeping" => inv[i].tasks[m].job # 0]_vars

\* two jobs of one fan-out are in progress at once
C24_Witness ==
    \E i \in Workers : \E k, m \in 1..Len(inv[i].tasks) :
        /\ k # m
        /\ inv[i].tasks[k].st = "sleeping"
        /\ inv[i].tasks[m].st = "sleeping"
        /\ inv[i].tasks[k].job # inv[i].tasks[m].job

\* the fan-out of a line that was begun is left
FanOutReturns ==
    \A i \in Sequential : (inv[i].pc = "fanout") ~> (inv[i].pc # "fanout")

\* C25: the polling loop of get_audio is left only by a completed job (the
\* filename is returned) or by a failed job or a call that raises (None is
\* returned): a task that is not done stays in its loop through every other
\* step, with no count or time that ends it; and when Polly gives every job
\* a terminal answer at some poll, every get_audio task and the whole
\* fan-out return.
C25_LoopEndsOnlyOnTerminalStatus ==
    /\ [][\A i \in Workers : \A k \in 1..Len(inv[i].tasks) :
            (/\ inv[i].tasks[k].st # "done"
             /\ Len(inv'[i].tasks) = Len(inv[i].tasks)
             /\ inv'[i].tasks[k].st = "done")
               => \/ inv'[i].tasks[k].result = FileName(inv[i].tasks[k].text)
                  \/ inv'[i].tasks[k].result = None /\ faults' > faults]_vars
    /\ [][\A i \in Workers : \A k \in 1..Len(inv[i].tasks) :
            inv[i].tasks[k].st = "sleeping"
              => /\ inv'[i].pc = "fanout"
                 /\ inv'[i].tasks[k].st \in {"sleeping", "done"}]_vars
    /\ FanOutReturns

\* a job was found in progress at its first poll and its task returned at a
\* later one
C25_Witness ==
    \E i \in Sequential : \E k \in 1..Len(inv[i].tasks) :
        /\ inv[i].pc = "save"
        /\ inv[i].tasks[k].job # 0
        /\ inv[i].tasks[k].doneAt = Len(inv[i].tasks)
        /\ \E m \in 1..Len(inv[i].tasks) : m > k /\ inv[i].tasks[m].doneAt < inv[i].tasks[k].doneAt

\* ---- failures of one line and the status of the event
\* C27: a line whose content generation fails (the LLM call raises or the
\* response cannot be parsed) ends there: from the lookup to the failure the
\* store and the bucket stay as they were, no get_audio task is made and no
\* entry is built; get_audio tasks are made only for content that parsed.
C27_GenerationFailureLeavesNoTrace ==
    [][\A i \in Workers :
         (inv[i].pc \in {"line", "generate"} /\ inv'[i] # inv[i])
           => /\ store' = store
              /\ blobs' = blobs
              /\ inv[i].pc = "generate"
                    => \/ /\ inv'[i].pc = "fanout"
                          /\ inv'[i].content.ok
                          /\ inv'[i].outcomes = inv[i].outcomes
                       \/ /\ \E x \in {"llm-error", "parse-error"} :
                               inv'[i].outcomes = Append(inv[i].outcomes, x)
                          /\ inv'[i].pc \in {"line", "endlines"}
                          /\ inv'[i].tasks = <<>>
                          /\ inv'[i].entry = NoEntry]_vars

\* a line has failed on a response that could not be parsed, with nothing in
\* the store and in the bucket
C27_Witness ==
    \E i \in Workers :
        /\ inv[i].outcomes = <<"parse-error">>
        /\ store = {}
        /\ blobs = {}
        /\ nEvents = 1

\* C28: process.lambda_handler always returns a status, 200 or 500, and the
\* status does not depend on what happens to the lines: 500 is returned only
\* for an event without records, or at a record whose body is malformed or
\* whose user lookup fails, never from inside the loop over the lines; the
\* step that returns leaves the store as it was, so what was saved before a
\* 500 stays stored.
C28_StatusIgnoresLineOutcomes ==
    [][\A i \in Workers :
         (inv'[i].pc = "idle" /\ inv'[i] # inv[i])
           => /\ inv'[i].status \in {200, 500}
              /\ store' = store
              /\ inv'[i].status = 500
                    => \/ inv[i].pc = "idle" /\ inv'[i].nrec = 0
                       \/ inv[i].pc = "record" /\ inv'[i].rec = inv[i].rec + 1
              /\ inv[i].pc \in {"line", "generate", "fanout", "save", "endlines"}
                    => inv'[i].status = 200 /\ inv[i].pc = "endlines"]_vars

\* an event in which a line failed on the store has returned 200
C28_Witness ==
    \E i \in Workers :
        /\ inv[i].pc = "idle"
        /\ inv[i].status = 200
        /\ inv[i].storeFailed
        /\ nEvents = 1

\* ---- who passes auth
\* the user payload of the initData of the request in hand, once parsed
PayloadOf(init_data) == JsonLoads(DictGet(Parsed(init_data), USER, <<>>))
PayloadHasId(init_data) ==
    /\ init_data \notin {None, <<>>}
    /\ DictHas(Parsed(init_data), USER)
    /\ PayloadOf(init_data).isDict
    /\ \E n \in 1..Len(PayloadOf(init_data).value) : PayloadOf(init_data).value[n] = IDTOK

\* C26: a request passes auth(require_auth=True) only if its initData
\* validated and the validated user payload contains an id: the user_id that
\* session_middleware attaches is not None only when the payload has an id,
\* and is then str of that id.
C26_AuthPassesOnlyWithId ==
    api.pc = "done"
      => /\ (api.route = "get_collection" /\ api.status = 200)
               => /\ HashMatches(ExtractInitData(AuthHeader(event)), TELEGRAM_TOKEN)
                  /\ PayloadHasId(ExtractInitData(AuthHeader(event)))
         /\ api.user_id # None
               => /\ PayloadHasId(ExtractInitData(AuthHeader(event)))
                  /\ api.user_id = Str(<<"7">>)

\* C29: a request changes the store only as a DELETE of an authenticated
\* caller on an item whose stored user_id equals the caller's user_id, and
\* then removes exactly that item; an item without user_id, as the pipeline
\* stores it, is still there after every request.
C29_DeleteOnlyOwnEntry ==
    [][(api.pc = "received" /\ api'.pc = "done")
         => /\ store' # store
                 => /\ api.route = "delete_entry"
                    /\ api'.is_authenticated
                    /\ api'.user_id # None
                    /\ api'.status = 200
                    /\ \E e \in store :
                         /\ e.id = api.item_id
                         /\ "user_id" \in DOMAIN e
                         /\ e.user_id = api'.user_id
                         /\ store' = store \ {e}
            /\ \A e \in store : "user_id" \notin DOMAIN e => e \in store'
            /\ store' \subseteq store]_vars

\* an authenticated caller asked to delete an entry of the pipeline, was
\* refused, and the entry is still stored
C29_Witness ==
    /\ api.pc = "done"
    /\ api.route = "delete_entry"
    /\ api.is_authenticated
    /\ api.user_id = Str(<<"7">>)
    /\ api.status # 200
    /\ api.reads = 1
    /\ \E e \in store : e.id = api.item_id /\ "user_id" \notin DOMAIN e

\* ---- the bot's commands and the users table

HasRecord(table, uid) == \E u \in table : u.user_id = uid

\* C21: get_user on a user_id without a record stores and returns the record
\* with level A1, empty context and admin false; on a user_id with a record
\* it returns that record and leaves the table as it was; the table never
\* holds two records of one user_id.
C21_GetUserCreatesLazily ==
    /\ [](\A u1, u2 \in users : u1.user_id = u2.user_id => u1 = u2)
    /\ [][call'.pc = "done" /\ call'.op = "get_user" =>
             LET uid == call'.user_id
             IN  IF HasRecord(users, uid)
                 THEN /\ users' = users
                      /\ call'.user \in users
                      /\ call'.user.user_id = uid
                 ELSE /\ call'.user = [user_id |-> uid, level |-> "A1", context |-> <<>>,
                                       admin |-> FALSE]
                      /\ users' = users \cup {call'.user}]_vars

\* get_user has returned a record that an earlier save wrote, with both
\* users stored
C21_Witness ==
    /\ call.pc = "done"
    /\ call.op = "get_user"
    /\ call.user.level = "B2"
    /\ call.user.context = <<"c">>
    /\ Cardinality(users) = 2

\* the level and context a user has: those of the record, the defaults of
\* the lazily created record when there is none
StoredFields(table, uid) ==
    IF HasRecord(table, uid)
    THEN LET u == CHOOSE x \in table : x.user_id = uid IN <<u.level, u.context>>
    ELSE <<"A1", <<>>>>

\* C22: /level with a valid level in any case sets the level and keeps the
\* context; /level with an invalid value keeps both; /context with text sets
\* the context and keeps the level; either command without an argument keeps
\* both; no update touches the record of another user, and an update that is
\* neither command leaves the table as it was.
C22_CommandsChangeOnlyTheirField ==
    [][call'.pc = "done" /\ call'.op = "update" /\ call'.body.message
           /\ call'.body.text # None =>
         LET text == call'.body.text
             uid == call'.body.user_id
             args == extract_command_args(text)
             before == StoredFields(users, uid)
             after == StoredFields(users', uid)
             isLevel == StartsWith(text, CmdLevel)
             isContext == StartsWith(text, CmdContext)
         IN  /\ {u \in users' : u.user_id # uid} = {u \in users : u.user_id # uid}
             /\ isLevel /\ args # <<>> /\ from_string(args[1]).ok =>
                    after = <<from_string(args[1]).level, before[2]>>
             /\ isLevel /\ args # <<>> /\ ~from_string(args[1]).ok => after = before
             /\ isContext /\ args # <<>> => after = <<before[1], Join(args, SP)>>
             /\ (isLevel \/ isContext) /\ args = <<>> => after = before
             /\ ~isLevel /\ ~isContext => users' = users]_vars

\* "/level b2" has been handled for a user whose context was set before: the
\* record has level B2 and still that context
C22_Witness ==
    /\ call.pc = "done"
    /\ call.op = "update"
    /\ call.body.text = CmdLevel \o <<SP, "b", "2">>
    /\ call.response.status = 200
    /\ \E u \in users : /\ u.user_id = call.body.user_id
                         /\ u.level = "B2"
                         /\ u.context = <<"c", SP, "x", "9">>

\* C30: one update makes at most one queue send: exactly one for a text
\* that does not start with '/', none for a text that does (and none for an
\* update without message or text); a failed send is answered with
\* message_error and not repeated, and the handler returns a response.
C30_AtMostOneSendPerUpdate ==
    call.pc = "done" /\ call.op = "update" =>
        LET r == call.response
            text == call.body.text
            plain == call.body.message /\ text # None /\ ~StartsWith(text, Slash)
        IN  /\ Len(r.sends) <= 1
            /\ r.status \in {200, 400, 500}
            /\ plain => r.sends = <<[text |-> text, ok |-> call.sendOk]>>
            /\ ~plain => r.sends = <<>>
            /\ plain /\ ~call.sendOk =>
                   /\ r.replies = <<"message_error">>
                   /\ r.status = IF 1 \in call.lost THEN 500 ELSE 200

\* a send has failed: one attempt, the user told, status 200
C30_Witness ==
    /\ call.pc = "done"
    /\ call.op = "update"
    /\ Len(call.response.sends) = 1
    /\ ~call.response.sends[1].ok
    /\ call.response.replies = <<"message_error">>
    /\ call.response.status = 200

====
